---- MODULE Spec2Model ----
(***************************************************************************)
(* Model of the LSP conformance runner                                     *)
(* (conformance-suite/lsp/runners/python-runner/lsp-runner.py):            *)
(* one JsonRpcClient connection, its background reader thread, the peer    *)
(* process writing frames on its stdout, and the TestExecutor running one  *)
(* test file's sequence followed by LSPDaemonManager.stop.                 *)
(***************************************************************************)
EXTENDS Integers, Sequences, FiniteSets, TLC

(* ---------------- bounds ---------------- *)

\* number of frames the peer writes during one connection
MaxMsgs == 2
\* number of steps of the test file's sequence
MaxSteps == 2
\* clock ticks that make up the timeout of one wait (timeout=5.0)
TimeoutTicks == 1
\* number of test files a run discovers at most
MaxFiles == 2

(* ---------------- values ---------------- *)

\* notification methods the peer emits and the steps wait for
Methods == {"a", "b"}

\* a decoded JSON-RPC message: id = 0 stands for "no 'id' key", method =
\* "none" for "no 'method' key"; seq is the position of its frame in the
\* peer's output (the identity of the message object)
NoMsg == [seq |-> 0, id |-> 0, method |-> "none"]

\* what the peer puts into a frame: a response (an id, no method), a
\* notification (a method, no id), a request of its own (both), a message
\* with neither key
PeerContents ==
    {[id |-> 1, method |-> "none"], [id |-> 2, method |-> "none"],
     [id |-> 0, method |-> "a"], [id |-> 0, method |-> "b"],
     [id |-> 1, method |-> "a"],
     [id |-> 0, method |-> "none"]}

\* Python's None as returned by wait_for_response / wait_for_notification
None == NoMsg

VARIABLES
    procAlive,          \* process.poll() is None
    wire,               \* frames written by the peer, not yet read
    nframes,            \* number of frames the peer has written
    termSent,           \* process.terminate() was called
    killSent,           \* process.kill() was called
    request_id,         \* JsonRpcClient.request_id
    pending_responses,  \* JsonRpcClient.pending_responses
    notifications,      \* JsonRpcClient.notifications (queue.Queue)
    lock,               \* JsonRpcClient.lock: "free", "reader" or "exec"
    rpc,                \* position of the reader thread
    message,            \* the reader thread's local variable message
    sawEof,             \* the reader has read an empty line at end of stream
    epc,                \* position of the executor (foreground thread)
    stepIdx,            \* index i of the for loop in TestExecutor.execute
    success,            \* local variable success of TestExecutor.execute
    waitId,             \* argument request_id of wait_for_response
    waitMethod,         \* argument method of wait_for_notification
    elapsed,            \* time.time() - start_time of the wait in progress
    collected,          \* local variable collected of wait_for_notification
    result,             \* value returned by the last wait
    usedIds,            \* ids of the send_request calls, in call order
    outbox,             \* messages the step in progress (or stop) has written to process.stdin, in order
    enqueued,           \* notifications the reader has put on the queue
    returned,           \* responses returned by wait_for_response, in order
    delivered,          \* notifications returned by wait_for_notification
    suite,              \* the run of the runner program: position of main, counters, verdicts, the peer's stdin
    match               \* the matcher call: its arguments and what each matcher reported

peerVars == <<procAlive, wire, nframes, termSent, killSent>>

clientVars == <<request_id, pending_responses, notifications, lock>>

readerVars == <<rpc, message, sawEof>>

execVars == <<epc, stepIdx, success, waitId, waitMethod, elapsed, collected, result>>

histVars == <<usedIds, outbox, enqueued, returned, delivered>>

vars == <<peerVars, clientVars, readerVars, execVars, histVars, suite, match>>

(* ---------------- helpers ---------------- *)

\* a store under the order of arrival instead of the id
DictSet_ByArrival(d, k, v) ==
    [i \in DOMAIN d \cup {Cardinality(DOMAIN d) + 1} |->
        IF i = Cardinality(DOMAIN d) + 1 THEN v ELSE d[i]]

\* dict.__setitem__: self.pending_responses[request_id] = message
DictSet(d, k, v) == [i \in DOMAIN d \cup {k} |-> IF i = k THEN v ELSE d[i]]

\* a lookup that leaves the entry in place (dict.get instead of dict.pop)
DictPop_KeepsEntry(d, k) == d

\* the dictionary left by dict.pop(k)
DictPop(d, k) == [i \in DOMAIN d \ {k} |-> d[i]]

\* the elements of a sequence
Range(s) == {s[i] : i \in DOMAIN s}

\* an access that does not wait for the lock
CanAcquire_Unguarded(l) == TRUE

\* Lock.acquire succeeds only on a free lock
CanAcquire(l) == l = "free"

\* 'id' in message
HasId(m) == m.id # 0

\* 'method' in message
HasMethod(m) == m.method # "none"

\* _send_message can write to process.stdin: the peer runs and has not
\* closed its end of the pipe; otherwise write/flush raise BrokenPipeError
PipeOpen == procAlive /\ suite.stdinOpen

(* ---------------- JSON values and the matchers ---------------- *)

\* length of the longest array drawn as pattern or actual value
MaxLen == 2

\* a JSON value as Python holds it: t is its type ("null" None, "bool",
\* "num" int, "float", "str", "obj" dict, "arr" list), n the value of a
\* number or boolean, s the text of a string, kids the members of an object
\* (key k, value val, in insertion order) or the items of an array (k = "")
JNull == [t |-> "null", n |-> 0, s |-> "", kids |-> <<>>]

JBool(b) == [t |-> "bool", n |-> IF b THEN 1 ELSE 0, s |-> "", kids |-> <<>>]

JNum(n) == [t |-> "num", n |-> n, s |-> "", kids |-> <<>>]

JFloat(n) == [t |-> "float", n |-> n, s |-> "", kids |-> <<>>]

JStr(x) == [t |-> "str", n |-> 0, s |-> x, kids |-> <<>>]

JObj(q) == [t |-> "obj", n |-> 0, s |-> "", kids |-> q]

JArr(q) == [t |-> "arr", n |-> 0, s |-> "", kids |-> q]

\* a member of an object
Member(key, v) == [k |-> key, val |-> v]

\* an array of the given values
ListOf(q) == JArr([i \in DOMAIN q |-> [k |-> "", val |-> q[i]]])

(* ---- Python strings ---- *)

\* text[i], 1-based
Char(text, i) == SubSeq(text, i, i)

\* text.startswith(prefix)
StartsWith(text, prefix) ==
    Len(text) >= Len(prefix) /\ SubSeq(text, 1, Len(prefix)) = prefix

\* text.endswith(suffix)
EndsWith(text, suffix) ==
    Len(text) >= Len(suffix) /\ SubSeq(text, Len(text) - Len(suffix) + 1, Len(text)) = suffix

\* sub in text
IsSubstring(sub, text) ==
    \E i \in 1..(Len(text) + 1) :
        i + Len(sub) - 1 <= Len(text) /\ SubSeq(text, i, i + Len(sub) - 1) = sub

\* text.strip(), for the blank
RECURSIVE Strip(_)
Strip(text) ==
    IF text = "" THEN ""
    ELSE IF Char(text, 1) = " " THEN Strip(SubSeq(text, 2, Len(text)))
    ELSE IF Char(text, Len(text)) = " " THEN Strip(SubSeq(text, 1, Len(text) - 1))
    ELSE text

\* text.split(sep) for a separator of one character
RECURSIVE SplitFrom(_, _, _, _)
SplitFrom(text, sep, start, i) ==
    IF i > Len(text) THEN <<SubSeq(text, start, Len(text))>>
    ELSE IF Char(text, i) = sep
    THEN <<SubSeq(text, start, i - 1)>> \o SplitFrom(text, sep, i + 1, i + 1)
    ELSE SplitFrom(text, sep, start, i + 1)

Split(text, sep) == SplitFrom(text, sep, 1, 1)

\* the decimal digits and the lower-case hexadecimal digits
Digits == {"0", "1", "2", "3", "4", "5", "6", "7", "8", "9"}

HexDigits == Digits \cup {"a", "b", "c", "d", "e", "f"}

\* str(n) of a non-negative int
RECURSIVE IntStr(_)
IntStr(n) ==
    IF n < 10 THEN Char("0123456789", n + 1)
    ELSE IntStr(n \div 10) \o Char("0123456789", (n % 10) + 1)

\* repr(v): str(v) of a value that is not a string
RECURSIVE Repr(_)
RECURSIVE ReprItems(_, _, _)
ReprItems(v, i, isDict) ==
    IF i > Len(v.kids) THEN ""
    ELSE (IF i > 1 THEN ", " ELSE "")
         \o (IF isDict THEN "'" \o v.kids[i].k \o "': " ELSE "")
         \o Repr(v.kids[i].val)
         \o ReprItems(v, i + 1, isDict)

Repr(v) ==
    CASE v.t = "null" -> "None"
      [] v.t = "bool" -> IF v.n = 1 THEN "True" ELSE "False"
      [] v.t = "num" -> IntStr(v.n)
      [] v.t = "float" -> IntStr(v.n) \o ".0"
      [] v.t = "str" -> "'" \o v.s \o "'"
      [] v.t = "obj" -> "{" \o ReprItems(v, 1, TRUE) \o "}"
      [] v.t = "arr" -> "[" \o ReprItems(v, 1, FALSE) \o "]"

\* str(v)
PyStr(v) == IF v.t = "str" THEN v.s ELSE Repr(v)

\* the body of a JSON string: quote and backslash are escaped
RECURSIVE Escape(_)
Escape(text) ==
    IF text = "" THEN ""
    ELSE (IF Char(text, 1) \in {"\"", "\\"} THEN "\\" ELSE "")
         \o Char(text, 1) \o Escape(SubSeq(text, 2, Len(text)))

\* json.dumps(v) with the default separators
RECURSIVE Dumps(_)
RECURSIVE DumpsItems(_, _, _)
DumpsItems(v, i, isDict) ==
    IF i > Len(v.kids) THEN ""
    ELSE (IF i > 1 THEN ", " ELSE "")
         \o (IF isDict THEN "\"" \o Escape(v.kids[i].k) \o "\": " ELSE "")
         \o Dumps(v.kids[i].val)
         \o DumpsItems(v, i + 1, isDict)

Dumps(v) ==
    CASE v.t = "null" -> "null"
      [] v.t = "bool" -> IF v.n = 1 THEN "true" ELSE "false"
      [] v.t = "num" -> IntStr(v.n)
      [] v.t = "float" -> IntStr(v.n) \o ".0"
      [] v.t = "str" -> "\"" \o Escape(v.s) \o "\""
      [] v.t = "obj" -> "{" \o DumpsItems(v, 1, TRUE) \o "}"
      [] v.t = "arr" -> "[" \o DumpsItems(v, 1, FALSE) \o "]"

\* isinstance(v, (int, float)): bool is a subclass of int
IsNumber(v) == v.t \in {"num", "float", "bool"}

\* 'key in d' and d[key] of a dict
HasKey(d, key) == \E i \in DOMAIN d.kids : d.kids[i].k = key

Item(d, key) == d.kids[CHOOSE i \in DOMAIN d.kids : d.kids[i].k = key].val

\* d.get(key)
Get(d, key) == IF HasKey(d, key) THEN Item(d, key) ELSE JNull

\* d.keys()
KeysOf(d) == {d.kids[i].k : i \in DOMAIN d.kids}

\* a == b: numbers and booleans by numeric value, strings by text, lists
\* item by item, dicts by their keys and values
RECURSIVE PyEq(_, _)
PyEq(a, b) ==
    IF IsNumber(a) /\ IsNumber(b) THEN a.n = b.n
    ELSE IF a.t # b.t THEN FALSE
    ELSE IF a.t = "str" THEN a.s = b.s
    ELSE IF a.t = "arr"
    THEN /\ Len(a.kids) = Len(b.kids)
         /\ \A i \in DOMAIN a.kids : PyEq(a.kids[i].val, b.kids[i].val)
    ELSE IF a.t = "obj"
    THEN /\ KeysOf(a) = KeysOf(b)
         /\ \A key \in KeysOf(a) : PyEq(Item(a, key), Item(b, key))
    ELSE TRUE

\* item in lst
IsElement(item, lst) == \E i \in DOMAIN lst.kids : PyEq(item, lst.kids[i].val)

(* ---- regular expressions: characters, [0-9], +, ^ and $ ---- *)

\* the pattern as a sequence of items: an anchor, or a character or the
\* class [0-9], once or one or more times
RECURSIVE ReParse(_, _)
ReParse(p, i) ==
    IF i > Len(p) THEN <<>>
    ELSE IF Char(p, i) = "^" THEN <<[kind |-> "bol", c |-> "", plus |-> FALSE]>> \o ReParse(p, i + 1)
    ELSE IF Char(p, i) = "$" THEN <<[kind |-> "eol", c |-> "", plus |-> FALSE]>> \o ReParse(p, i + 1)
    ELSE LET isClass == i + 4 <= Len(p) /\ SubSeq(p, i, i + 4) = "[0-9]"
             next == IF isClass THEN i + 5 ELSE i + 1
             plus == next <= Len(p) /\ Char(p, next) = "+"
         IN  <<[kind |-> IF isClass THEN "digit" ELSE "lit",
                c |-> IF isClass THEN "" ELSE Char(p, i),
                plus |-> plus]>>
             \o ReParse(p, IF plus THEN next + 1 ELSE next)

\* the character fits the item
ReFits(item, c) == IF item.kind = "digit" THEN c \in Digits ELSE c = item.c

\* the items from the k-th on match text from position j on
RECURSIVE ReMatchAt(_, _, _, _)
ReMatchAt(items, k, text, j) ==
    IF k > Len(items) THEN TRUE
    ELSE IF items[k].kind = "bol" THEN j = 1 /\ ReMatchAt(items, k + 1, text, j)
    ELSE IF items[k].kind = "eol" THEN j = Len(text) + 1 /\ ReMatchAt(items, k + 1, text, j)
    ELSE IF items[k].plus
    THEN \E m \in 1..(Len(text) - j + 1) :
            /\ \A q \in j..(j + m - 1) : ReFits(items[k], Char(text, q))
            /\ ReMatchAt(items, k + 1, text, j + m)
    ELSE /\ j <= Len(text)
         /\ ReFits(items[k], Char(text, j))
         /\ ReMatchAt(items, k + 1, text, j + 1)

\* re.match(p, text) is not None: the pattern matches at the start
ReMatch(p, text) == ReMatchAt(ReParse(p, 1), 1, text, 1)

\* re.search(p, text) is not None: the pattern matches somewhere
ReSearch(p, text) == \E j \in 1..(Len(text) + 1) : ReMatchAt(ReParse(p, 1), 1, text, j)

\* c.lower() of a character, for the letters a hexadecimal number is written with
LowerHex(c) ==
    CASE c = "A" -> "a" [] c = "B" -> "b" [] c = "C" -> "c"
      [] c = "D" -> "d" [] c = "E" -> "e" [] c = "F" -> "f"
      [] OTHER -> c

\* the uuid_pattern of is_placeholder_match matches text.lower() (or text,
\* ignoring case): 8-4-4-4-12 hexadecimal digits
IsUuid(text) ==
    /\ Len(text) = 36
    /\ \A i \in 1..36 :
          IF i \in {9, 14, 19, 24}
          THEN Char(text, i) = "-"
          ELSE LowerHex(Char(text, i)) \in HexDigits

\* the iso_pattern of is_placeholder_match:
\* YYYY-MM-DDTHH:MM:SS, then optionally a fraction, then optionally Z or
\* an offset +HH:MM / -HH:MM
IsoOffset(text) ==
    \/ text = ""
    \/ text = "Z"
    \/ /\ Len(text) = 6
       /\ Char(text, 1) \in {"+", "-"}
       /\ Char(text, 4) = ":"
       /\ \A i \in {2, 3, 5, 6} : Char(text, i) \in Digits

IsIso8601(text) ==
    /\ Len(text) >= 19
    /\ \A i \in 1..19 :
          CASE i \in {5, 8} -> Char(text, i) = "-"
            [] i = 11 -> Char(text, i) = "T"
            [] i \in {14, 17} -> Char(text, i) = ":"
            [] OTHER -> Char(text, i) \in Digits
    /\ \/ IsoOffset(SubSeq(text, 20, Len(text)))
       \/ /\ Len(text) >= 21
          /\ Char(text, 20) = "."
          /\ \E e \in 21..Len(text) :
                /\ \A i \in 21..e : Char(text, i) \in Digits
                /\ IsoOffset(SubSeq(text, e + 1, Len(text)))

\* json.loads(text) succeeds, for a text without blanks: a scalar literal,
\* or a string without escapes
IsJsonText(text) ==
    \/ text \in {"null", "true", "false"}
    \/ /\ text # ""
       /\ \A i \in 1..Len(text) : Char(text, i) \in Digits
       /\ Len(text) = 1 \/ Char(text, 1) # "0"
    \/ /\ Len(text) >= 2
       /\ Char(text, 1) = "\""
       /\ Char(text, Len(text)) = "\""
       /\ \A i \in 2..(Len(text) - 1) : Char(text, i) \notin {"\"", "\\"}

(* ---- TemplateEngine ---- *)

\* the 'documents' and 'variables' blocks of the test file
Documents ==
    JObj(<<Member("test_doc", JObj(<<Member("uri", JStr("file:///test.utlx")),
                                      Member("n", JObj(<<Member("m", JNum(1))>>))>>))>>)

Variables == JObj(<<Member("v", JStr("x"))>>)

\* f"{{{{{path}}}}}": the token is kept
Original(path) == JStr("{{" \o path \o "}}")

\* the for loop of _resolve_path: the parts from the i-th on are looked up
\* from value on
RECURSIVE Walk(_, _, _, _)
Walk(value, parts, i, path) ==
    IF i > Len(parts) THEN value
    ELSE IF value.t = "obj" THEN Walk(Get(value, parts[i]), parts, i + 1, path)
    ELSE Original(path)

\* TemplateEngine._resolve_path
ResolvePath(path) ==
    LET parts == Split(path, ".")
    IN  IF parts[1] = "documents" /\ Len(parts) >= 2 /\ HasKey(Documents, parts[2])
        THEN Walk(Item(Documents, parts[2]), parts, 3, path)
        ELSE IF parts[1] = "variables"
        THEN Walk(Variables, parts, 2, path)
        ELSE Original(path)

\* position of the first "}" of text at or after i, 0 if there is none
RECURSIVE FirstClose(_, _)
FirstClose(text, i) ==
    IF i > Len(text) THEN 0
    ELSE IF Char(text, i) = "}" THEN i
    ELSE FirstClose(text, i + 1)

\* the pattern \{\{([^}]+)\}\} matches text at position i: position of the
\* last character of the match, 0 if there is no match at i
TokenEnd(text, i) ==
    IF i + 1 > Len(text) \/ SubSeq(text, i, i + 1) # "{{" THEN 0
    ELSE LET j == FirstClose(text, i + 2)
         IN  IF j > i + 2 /\ j + 1 <= Len(text) /\ Char(text, j + 1) = "}"
             THEN j + 1
             ELSE 0

\* re.sub(pattern, replacer, text), from position i on: every match, from
\* left to right, is replaced by str(_resolve_path(group(1).strip()))
RECURSIVE SubstituteFrom(_, _)
SubstituteFrom(text, i) ==
    IF i > Len(text) THEN ""
    ELSE LET e == TokenEnd(text, i)
         IN  IF e = 0
             THEN Char(text, i) \o SubstituteFrom(text, i + 1)
             ELSE PyStr(ResolvePath(Strip(SubSeq(text, i + 2, e - 2))))
                  \o SubstituteFrom(text, e + 1)

\* TemplateEngine._substitute_string
SubstituteString(text) == SubstituteFrom(text, 1)

\* TemplateEngine.substitute
RECURSIVE Substitute(_)
Substitute(value) ==
    IF value.t = "str" THEN JStr(SubstituteString(value.s))
    ELSE IF value.t \in {"obj", "arr"}
    THEN [value EXCEPT !.kids = [i \in DOMAIN value.kids |->
                                    [k |-> value.kids[i].k, val |-> Substitute(value.kids[i].val)]]]
    ELSE value

(* ---- the matchers ---- *)

\* one mismatch: the path it is tagged with and what the message says
Mismatch(path, what) == [path |-> path, what |-> what]

\* errors.extend(...) over a sequence of error lists
RECURSIVE Flatten(_)
Flatten(lists) ==
    IF lists = <<>> THEN <<>>
    ELSE Head(lists) \o Flatten(Tail(lists))

\* f"{path}.{key}" and f"{path}[{i}]" (i counted from 0)
KeyPath(path, key) == path \o "." \o key

IndexPath(path, i) == path \o "[" \o IntStr(i - 1) \o "]"

\* a containment check that is made only on strings
ValidateContains_StringsOnly(act, expectedContains, path) ==
    IF expectedContains.t = "arr" /\ act.t = "str"
    THEN Flatten([i \in DOMAIN expectedContains.kids |->
                     IF IsSubstring(PyStr(expectedContains.kids[i].val), act.s)
                     THEN <<>>
                     ELSE <<Mismatch(path, "expected to contain")>>])
    ELSE <<Mismatch(path, "cannot check 'contains'")>>

\* ResponseValidator._validate_contains: the errors
ValidateContains(act, expectedContains, path) ==
    IF expectedContains.t = "arr"
    THEN IF act.t \in {"str", "arr", "obj"}
         THEN Flatten([i \in DOMAIN expectedContains.kids |->
                 LET item == expectedContains.kids[i].val
                     found == CASE act.t = "str" -> IsSubstring(PyStr(item), act.s)
                                [] act.t = "arr" -> IsElement(item, act)
                                [] act.t = "obj" -> IsSubstring(PyStr(item), Dumps(act))
                 IN  IF found THEN <<>> ELSE <<Mismatch(path, "expected to contain")>>])
         ELSE <<Mismatch(path, "cannot check 'contains'")>>
    ELSE <<Mismatch(path, "'contains' must be an array")>>

\* ResponseValidator.validate: the errors
RECURSIVE ValidateErrs(_, _, _)
ValidateErrs(act, expected, path) ==
    IF expected.t = "null"
    THEN IF act.t # "null" THEN <<Mismatch(path, "expected null")>> ELSE <<>>
    ELSE IF expected.t = "obj"
    THEN IF HasKey(expected, "contains")
         THEN ValidateContains(act, Item(expected, "contains"), path)
         ELSE IF act.t # "obj" THEN <<Mismatch(path, "expected object")>>
         ELSE Flatten([i \in DOMAIN expected.kids |->
                          ValidateErrs(Get(act, expected.kids[i].k), expected.kids[i].val,
                                       KeyPath(path, expected.kids[i].k))])
    ELSE IF expected.t = "arr"
    THEN IF act.t # "arr" THEN <<Mismatch(path, "expected array")>>
         ELSE IF Len(act.kids) # Len(expected.kids) THEN <<Mismatch(path, "expected items")>>
         ELSE Flatten([i \in DOMAIN expected.kids |->
                          ValidateErrs(act.kids[i].val, expected.kids[i].val, IndexPath(path, i))])
    ELSE IF ~PyEq(act, expected) THEN <<Mismatch(path, "expected value")>>
    ELSE <<>>

\* a validation that accepts an object only if it has no key beyond the
\* expected ones
Validate_AllKeys(act, expected) ==
    /\ ValidateErrs(act, expected, "result") = <<>>
    /\ (act.t = "obj" /\ expected.t = "obj") => KeysOf(act) \subseteq KeysOf(expected)

\* ResponseValidator.validate: success, with the default path
Validate(act, expected) == ValidateErrs(act, expected, "result") = <<>>

\* expected.startswith('{{') and expected.endswith('}}')
IsPlaceholderForm(x) == StartsWith(x, "{{") /\ EndsWith(x, "}}")

\* expected[2:-2].strip()
PlaceholderOf(x) == Strip(SubSeq(x, 3, Len(x) - 2))

\* is_placeholder_match of mcp-runner.py
IsPlaceholderMatchMcp(expected, act) ==
    IF expected.t # "str" THEN FALSE
    ELSE IF ~IsPlaceholderForm(expected.s) THEN FALSE
    ELSE LET placeholder == PlaceholderOf(expected.s)
         IN  IF placeholder = "ANY" THEN TRUE
             ELSE IF placeholder \in {"TIMESTAMP", "ISO8601"} THEN act.t = "str" /\ IsIso8601(act.s)
             ELSE IF placeholder = "UUID" THEN act.t = "str" /\ IsUuid(act.s)
             ELSE IF placeholder = "NUMBER" THEN IsNumber(act)
             ELSE IF placeholder = "STRING" THEN act.t = "str"
             ELSE IF placeholder = "BOOLEAN" THEN act.t = "bool"
             ELSE IF StartsWith(placeholder, "REGEX:")
             THEN act.t = "str" /\ ReMatch(Strip(SubSeq(placeholder, 7, Len(placeholder))), act.s)
             ELSE FALSE

\* is_placeholder_match of mcp-server-runner.py
IsPlaceholderMatchMcpServer(expected, act) ==
    IF expected.t # "str" THEN FALSE
    ELSE IF ~IsPlaceholderForm(expected.s) THEN FALSE
    ELSE LET placeholder == PlaceholderOf(expected.s)
         IN  IF placeholder = "ANY" THEN TRUE
             ELSE IF placeholder = "NUMBER" THEN IsNumber(act)
             ELSE IF placeholder = "STRING" THEN act.t = "str"
             ELSE IF placeholder = "BOOLEAN" THEN act.t = "bool"
             ELSE IF placeholder = "JSON" THEN act.t = "str" /\ IsJsonText(act.s)
             ELSE IF placeholder \in {"TIMESTAMP", "ISO8601"} THEN act.t = "str" /\ IsIso8601(act.s)
             ELSE IF placeholder = "UUID" THEN act.t = "str" /\ IsUuid(act.s)
             ELSE IF StartsWith(placeholder, "REGEX:")
             THEN act.t = "str" /\ ReSearch(SubSeq(placeholder, 7, Len(placeholder)), act.s)
             ELSE FALSE

\* deep_compare of mcp-runner.py: the list of errors
RECURSIVE DeepCompareMcpErrs(_, _, _)
DeepCompareMcpErrs(expected, act, path) ==
    IF expected.t = "str" /\ IsPlaceholderMatchMcp(expected, act) THEN <<>>
    ELSE IF expected.t # act.t
    THEN IF IsNumber(expected) /\ IsNumber(act)
         THEN IF expected.n # act.n THEN <<Mismatch(path, "expected value")>> ELSE <<>>
         ELSE <<Mismatch(path, "type mismatch")>>
    ELSE IF expected.t = "obj"
    THEN Flatten([i \in DOMAIN expected.kids |->
                     IF ~HasKey(act, expected.kids[i].k)
                     THEN <<Mismatch(KeyPath(path, expected.kids[i].k), "missing in actual")>>
                     ELSE DeepCompareMcpErrs(expected.kids[i].val, Item(act, expected.kids[i].k),
                                             KeyPath(path, expected.kids[i].k))])
    ELSE IF expected.t = "arr"
    THEN IF Len(expected.kids) # Len(act.kids) THEN <<Mismatch(path, "length mismatch")>>
         ELSE Flatten([i \in DOMAIN expected.kids |->
                          DeepCompareMcpErrs(expected.kids[i].val, act.kids[i].val,
                                             IndexPath(path, i))])
    ELSE IF ~PyEq(expected, act) THEN <<Mismatch(path, "expected value")>>
    ELSE <<>>

\* a comparison of lists that looks at the common prefix only
DeepCompareMcp_Prefix(expected, act) ==
    IF expected.t = "arr" /\ act.t = "arr"
    THEN \A i \in DOMAIN expected.kids \cap DOMAIN act.kids :
            DeepCompareMcpErrs(expected.kids[i].val, act.kids[i].val, "$") = <<>>
    ELSE DeepCompareMcpErrs(expected, act, "$") = <<>>

\* deep_compare of mcp-runner.py reports no error
DeepCompareMcp(expected, act) == DeepCompareMcpErrs(expected, act, "$") = <<>>

\* the first error of a sequence of results, as a list of at most one
FirstOf(lists) ==
    LET all == Flatten(lists)
    IN  IF all = <<>> THEN <<>> ELSE <<all[1]>>

\* deep_compare of mcp-server-runner.py: (True, None) is the empty list,
\* (False, message) the list of that one message
RECURSIVE DeepCompareMcpServerErr(_, _, _)
DeepCompareMcpServerErr(expected, act, path) ==
    IF expected.t = "str" /\ IsPlaceholderForm(expected.s)
    THEN IF IsPlaceholderMatchMcpServer(expected, act) THEN <<>>
         ELSE <<Mismatch(path, "placeholder did not match")>>
    ELSE IF expected.t # act.t THEN <<Mismatch(path, "type mismatch")>>
    ELSE IF expected.t = "obj"
    THEN FirstOf([i \in DOMAIN expected.kids |->
                     IF ~HasKey(act, expected.kids[i].k)
                     THEN <<Mismatch(path, "missing key")>>
                     ELSE DeepCompareMcpServerErr(expected.kids[i].val, Item(act, expected.kids[i].k),
                                                  KeyPath(path, expected.kids[i].k))])
    ELSE IF expected.t = "arr"
    THEN IF Len(expected.kids) # Len(act.kids) THEN <<Mismatch(path, "list length mismatch")>>
         ELSE FirstOf([i \in DOMAIN expected.kids |->
                          DeepCompareMcpServerErr(expected.kids[i].val, act.kids[i].val,
                                                  IndexPath(path, i))])
    ELSE IF ~PyEq(expected, act) THEN <<Mismatch(path, "value mismatch")>>
    ELSE <<>>

\* deep_compare of mcp-server-runner.py: is_match
DeepCompareMcpServer(expected, act) == DeepCompareMcpServerErr(expected, act, "root") = <<>>

\* what the three matchers say about one pair of values
MatchAll(expected, act) ==
    [applied |-> TRUE,
     lsp |-> Validate(act, expected),
     mcp |-> DeepCompareMcp(expected, act),
     mcpserver |-> DeepCompareMcpServer(expected, act)]

\* the mismatches the three matchers report on one pair of values
ErrorsAll(expected, act) ==
    [lsp |-> ValidateErrs(act, expected, "result"),
     mcp |-> DeepCompareMcpErrs(expected, act, "$"),
     mcpserver |-> DeepCompareMcpServerErr(expected, act, "root")]

\* no matcher has reported anything
NoErrors == [lsp |-> <<>>, mcp |-> <<>>, mcpserver |-> <<>>]

(* ---- the values drawn ---- *)

\* the keys of the objects drawn in the structural checks
Keys == <<"a", "b">>

\* scalar values of the structural checks
Scalars == {JNull, JNum(1), JNum(2), JStr("s")}

\* scalar patterns of the structural checks: the same and two placeholders
PatternScalars == Scalars \cup {JStr("{{ANY}}"), JStr("{{NUMBER}}")}

\* the objects over Keys, in the order of Keys, with values from vals
ObjectsOver(vals) ==
    {JObj(q) : q \in
        {r \in UNION {[1..n -> [k : Range(Keys), val : vals]] : n \in 0..Len(Keys)} :
            \A i, j \in DOMAIN r :
                i < j => \E x, y \in DOMAIN Keys : x < y /\ Keys[x] = r[i].k /\ Keys[y] = r[j].k}}

\* the arrays of up to n items from vals
ArraysOver(vals, n) ==
    {JArr(q) : q \in UNION {[1..m -> [k : {""}, val : vals]] : m \in 0..n}}

Actuals == Scalars \cup ObjectsOver(Scalars) \cup ArraysOver(Scalars, MaxLen)

Patterns == PatternScalars \cup ObjectsOver(PatternScalars) \cup ArraysOver(PatternScalars, MaxLen)


(* ---------------- length-prefixed framing ---------------- *)

\* a parse that failed (json.loads raises), and one that gave value v and
\* stopped before position next
NoParse == [ok |-> FALSE, v |-> JNull, next |-> 0]

Parsed(v, next) == [ok |-> TRUE, v |-> v, next |-> next]

\* the position of the first character of text at or after i that is not
\* JSON whitespace
RECURSIVE SkipBlank(_, _)
SkipBlank(text, i) ==
    IF i <= Len(text) /\ Char(text, i) \in {" ", "\t", "\n", "\r"}
    THEN SkipBlank(text, i + 1)
    ELSE i

\* text has the word at position i
At(text, i, word) ==
    /\ i + Len(word) - 1 <= Len(text)
    /\ SubSeq(text, i, i + Len(word) - 1) = word

\* int(digits) of a text of decimal digits
RECURSIVE StrInt(_)
StrInt(digits) ==
    IF digits = "" THEN 0
    ELSE 10 * StrInt(SubSeq(digits, 1, Len(digits) - 1))
         + (CHOOSE d \in 0..9 : IntStr(d) = Char(digits, Len(digits)))

\* the position after the run of digits of text that starts at i
RECURSIVE DigitsEnd(_, _)
DigitsEnd(text, i) ==
    IF i <= Len(text) /\ Char(text, i) \in Digits THEN DigitsEnd(text, i + 1) ELSE i

\* the body of a JSON string from position i (after the opening quote) on:
\* the text up to the closing quote with \" and \\ unescaped; next is the
\* position after the closing quote
RECURSIVE ParseString(_, _, _)
ParseString(text, i, acc) ==
    IF i > Len(text) THEN NoParse
    ELSE IF Char(text, i) = "\"" THEN Parsed(JStr(acc), i + 1)
    ELSE IF Char(text, i) = "\\"
    THEN IF i + 1 <= Len(text) /\ Char(text, i + 1) \in {"\"", "\\"}
         THEN ParseString(text, i + 2, acc \o Char(text, i + 1))
         ELSE NoParse
    ELSE ParseString(text, i + 1, acc \o Char(text, i))

\* the JSON value of text that starts at position i: null, true, false, a
\* number written with digits (and .0), a string, an array, an object
RECURSIVE ParseValue(_, _)
RECURSIVE ParseItems(_, _, _)
RECURSIVE ParseMembers(_, _, _)
ParseItems(text, i, acc) ==
    LET item == ParseValue(text, i)
        j == SkipBlank(text, item.next)
    IN  IF ~item.ok \/ j > Len(text) THEN NoParse
        ELSE IF Char(text, j) = "]"
        THEN Parsed(JArr(Append(acc, Member("", item.v))), j + 1)
        ELSE IF Char(text, j) = ","
        THEN ParseItems(text, j + 1, Append(acc, Member("", item.v)))
        ELSE NoParse

ParseMembers(text, i, acc) ==
    LET q == SkipBlank(text, i)
        key == IF q <= Len(text) /\ Char(text, q) = "\"" THEN ParseString(text, q + 1, "") ELSE NoParse
        c == SkipBlank(text, key.next)
        item == IF key.ok /\ c <= Len(text) /\ Char(text, c) = ":"
                THEN ParseValue(text, c + 1)
                ELSE NoParse
        j == SkipBlank(text, item.next)
    IN  IF ~item.ok \/ j > Len(text) THEN NoParse
        ELSE IF Char(text, j) = "}"
        THEN Parsed(JObj(Append(acc, Member(key.v.s, item.v))), j + 1)
        ELSE IF Char(text, j) = ","
        THEN ParseMembers(text, j + 1, Append(acc, Member(key.v.s, item.v)))
        ELSE NoParse

ParseValue(text, i) ==
    LET p == SkipBlank(text, i)
        c == IF p <= Len(text) THEN Char(text, p) ELSE ""
        e == DigitsEnd(text, p)
    IN  IF c = "" THEN NoParse
        ELSE IF c = "n"
        THEN IF At(text, p, "null") THEN Parsed(JNull, p + 4) ELSE NoParse
        ELSE IF c = "t"
        THEN IF At(text, p, "true") THEN Parsed(JBool(TRUE), p + 4) ELSE NoParse
        ELSE IF c = "f"
        THEN IF At(text, p, "false") THEN Parsed(JBool(FALSE), p + 5) ELSE NoParse
        ELSE IF c \in Digits
        THEN IF e > p + 1 /\ c = "0" THEN NoParse
             ELSE IF At(text, e, ".0")
             THEN Parsed(JFloat(StrInt(SubSeq(text, p, e - 1))), e + 2)
             ELSE Parsed(JNum(StrInt(SubSeq(text, p, e - 1))), e)
        ELSE IF c = "\"" THEN ParseString(text, p + 1, "")
        ELSE IF c = "["
        THEN IF SkipBlank(text, p + 1) <= Len(text) /\ Char(text, SkipBlank(text, p + 1)) = "]"
             THEN Parsed(JArr(<<>>), SkipBlank(text, p + 1) + 1)
             ELSE ParseItems(text, p + 1, <<>>)
        ELSE IF c = "{"
        THEN IF SkipBlank(text, p + 1) <= Len(text) /\ Char(text, SkipBlank(text, p + 1)) = "}"
             THEN Parsed(JObj(<<>>), SkipBlank(text, p + 1) + 1)
             ELSE ParseMembers(text, p + 1, <<>>)
        ELSE NoParse

\* json.loads(text): the value, or a failure when text is not one JSON
\* value
Loads(text) ==
    LET r == ParseValue(text, 1)
    IN  IF r.ok /\ SkipBlank(text, r.next) = Len(text) + 1 THEN r ELSE NoParse

\* a framing that announces one byte more than the body has
SendMessage_LongerLength(m) ==
    "Content-Length: " \o IntStr(Len(Dumps(m)) + 1) \o "\r\n\r\n" \o Dumps(m)

\* _send_message: what is written to process.stdin for the message m
SendMessage(m) ==
    LET content == Dumps(m)
        headers == "Content-Length: " \o IntStr(Len(content)) \o "\r\n\r\n"
    IN  headers \o content

\* process.stdout.readline() on the bytes from position i on: the position
\* of the last byte of the line (its "\n"), 0 when no complete line is there
RECURSIVE LineEnd(_, _)
LineEnd(stream, i) ==
    IF i > Len(stream) THEN 0
    ELSE IF Char(stream, i) = "\n" THEN i
    ELSE LineEnd(stream, i + 1)

\* position of the first ":" of line, 0 if there is none
RECURSIVE FirstColon(_, _)
FirstColon(line, i) ==
    IF i > Len(line) THEN 0
    ELSE IF Char(line, i) = ":" THEN i
    ELSE FirstColon(line, i + 1)

\* text.strip() for blanks, "\r" and "\n"
RECURSIVE StripLine(_)
StripLine(text) ==
    IF text = "" THEN ""
    ELSE IF Char(text, 1) \in {" ", "\r", "\n", "\t"} THEN StripLine(SubSeq(text, 2, Len(text)))
    ELSE IF Char(text, Len(text)) \in {" ", "\r", "\n", "\t"}
    THEN StripLine(SubSeq(text, 1, Len(text) - 1))
    ELSE text

\* the header loop of _read_message from position i on: lines are read up
\* to the blank line; every line with a ":" sets headers[key] = value.  The
\* result tells whether the blank line was there (otherwise readline
\* blocks), the value of headers.get('Content-Length') ("" when absent)
\* and the position after the blank line
RECURSIVE ReadHeaders(_, _, _)
ReadHeaders(stream, i, contentLength) ==
    LET e == LineEnd(stream, i)
        line == SubSeq(stream, i, e)
        c == FirstColon(line, 1)
    IN  IF e = 0 THEN [complete |-> FALSE, contentLength |-> contentLength, next |-> i]
        ELSE IF line \in {"\r\n", "\n"}
        THEN [complete |-> TRUE, contentLength |-> contentLength, next |-> e + 1]
        ELSE IF c # 0 /\ StripLine(SubSeq(line, 1, c - 1)) = "Content-Length"
        THEN ReadHeaders(stream, e + 1, StripLine(SubSeq(line, c + 1, Len(line))))
        ELSE ReadHeaders(stream, e + 1, contentLength)

\* int(text) succeeds: text is a run of digits
IsInt(text) == text # "" /\ \A i \in 1..Len(text) : Char(text, i) \in Digits

\* _read_message on the bytes of the stream: blocked tells that the bytes
\* do not suffice (readline or read waits for more); otherwise message is
\* the value returned, with none = TRUE for None (no or zero
\* Content-Length, or an exception of int() or json.loads), and rest the
\* bytes left in the stream
ReadMessage(stream) ==
    LET h == ReadHeaders(stream, 1, "")
        n == IF IsInt(h.contentLength) THEN StrInt(h.contentLength) ELSE 0
        after == SubSeq(stream, h.next, Len(stream))
        parsed == Loads(SubSeq(after, 1, n))
    IN  IF ~h.complete THEN [blocked |-> TRUE, none |-> TRUE, message |-> JNull, rest |-> stream]
        ELSE IF h.contentLength # "" /\ ~IsInt(h.contentLength)
        THEN [blocked |-> FALSE, none |-> TRUE, message |-> JNull, rest |-> after]
        ELSE IF n = 0
        THEN [blocked |-> FALSE, none |-> TRUE, message |-> JNull, rest |-> after]
        ELSE IF Len(after) < n
        THEN [blocked |-> TRUE, none |-> TRUE, message |-> JNull, rest |-> stream]
        ELSE [blocked |-> FALSE, none |-> ~parsed.ok, message |-> parsed.v,
              rest |-> SubSeq(after, n + 1, Len(after))]

(* ---------------- the verdict of a request step ---------------- *)

\* results a response carries and a step expects
StepResults == {JNum(1), JNum(2)}

\* wait_for_response returned None
NoResponse == [none |-> TRUE, error |-> FALSE, hasResult |-> FALSE, result |-> JNull]

\* the responses a request step can get: None, or a message with or without
\* an 'error' key and with or without a 'result' key
Responses ==
    {NoResponse} \cup
    {[none |-> FALSE, error |-> e, hasResult |-> FALSE, result |-> JNull] : e \in BOOLEAN} \cup
    {[none |-> FALSE, error |-> e, hasResult |-> TRUE, result |-> r] : e \in BOOLEAN, r \in StepResults}

\* step.get('expect', {}) of a step without expectations
NoExpect == [error |-> FALSE, hasResult |-> FALSE, result |-> JNull]

\* the expect blocks of request steps: with or without an 'error' key, with
\* or without a 'result' key
Expects ==
    {[error |-> e, hasResult |-> FALSE, result |-> JNull] : e \in BOOLEAN} \cup
    {[error |-> e, hasResult |-> TRUE, result |-> r] : e \in BOOLEAN, r \in StepResults}

\* response.get('result')
ResultOf(r) == IF r.hasResult THEN r.result ELSE JNull

\* a request step that does not look at the 'error' key of the response
ExecuteRequest_ErrorsPass(r, e) ==
    IF r.none THEN "Timeout"
    ELSE IF e.hasResult /\ ~Validate(ResultOf(r), Substitute(e.result)) THEN "ValidationError"
    ELSE "Passed"

\* a request step that compares the declared error with the received one
ExecuteRequest_ComparesErrors(r, e) ==
    IF r.none THEN "Timeout"
    ELSE IF r.error /\ ~e.error THEN "UnexpectedError"
    ELSE IF r.error /\ e.error /\ r.errorValue # e.errorValue THEN "ErrorMismatch"
    ELSE IF e.hasResult /\ ~Validate(ResultOf(r), Substitute(e.result)) THEN "ValidationError"
    ELSE "Passed"

\* _execute_request after the send: what the step reports for the response
\* it got; it returns True exactly on "Passed"
ExecuteRequest(r, e) ==
    IF r.none THEN "Timeout"
    ELSE IF r.error /\ ~e.error THEN "UnexpectedError"
    ELSE IF e.hasResult /\ ~Validate(ResultOf(r), Substitute(e.result)) THEN "ValidationError"
    ELSE "Passed"

\* no matcher has been applied to the pair drawn
NotApplied == [applied |-> FALSE, lsp |-> FALSE, mcp |-> FALSE, mcpserver |-> FALSE]

(* ---------------- initial state ---------------- *)

\* LSPDaemonManager.start has returned for the one test file main is
\* executing: the process runs, the client is constructed and its reader
\* thread is started
ConnInit ==
    /\ procAlive = TRUE
    /\ wire = <<>>
    /\ nframes = 0
    /\ termSent = FALSE
    /\ killSent = FALSE
    /\ request_id = 0
    /\ pending_responses = <<>>
    /\ notifications = <<>>
    /\ lock = "free"
    /\ rpc = "poll"
    /\ message = NoMsg
    /\ sawEof = FALSE
    /\ epc = "next"
    /\ stepIdx = 0
    /\ success = TRUE
    /\ waitId = 0
    /\ waitMethod = "none"
    /\ elapsed = 0
    /\ collected = <<>>
    /\ result = None
    /\ usedIds = <<>>
    /\ outbox = <<>>
    /\ enqueued = {}
    /\ returned = <<>>
    /\ delivered = {}


\* main is inside executor.execute() of the one test file of the run.  Of
\* the state of the run the connection depends only on the peer's end of the
\* pipe; the bookkeeping of main is followed from RunInit on
SuiteInit ==
    suite = [stdinOpen |-> TRUE]

\* no matcher call is in progress
MatchIdle ==
    match = [matched |-> NotApplied]

Init == ConnInit /\ SuiteInit /\ MatchIdle

(* ---------------- the peer process ---------------- *)

\* the peer writes one frame on its stdout: a well-formed message, or a
\* malformed frame (no Content-Length, Content-Length 0, or a body that is
\* not JSON), written here as ok = FALSE
PeerSend ==
    /\ procAlive
    /\ nframes < MaxMsgs
    /\ \/ \E c \in PeerContents :
             wire' = Append(wire, [ok |-> TRUE,
                                   msg |-> [seq |-> nframes + 1, id |-> c.id, method |-> c.method]])
       \/ wire' = Append(wire, [ok |-> FALSE, msg |-> NoMsg])
    /\ nframes' = nframes + 1
    /\ UNCHANGED <<procAlive, termSent, killSent>>
    /\ UNCHANGED <<clientVars, readerVars, execVars, histVars>>
    /\ UNCHANGED <<suite, match>>

\* the peer process exits (on its own, on shutdown/exit, or on SIGTERM);
\* its stdout reaches end of stream once the buffered frames are read
PeerExit ==
    /\ procAlive
    /\ procAlive' = FALSE
    /\ UNCHANGED <<wire, nframes, termSent, killSent>>
    /\ UNCHANGED <<clientVars, readerVars, execVars, histVars>>
    /\ UNCHANGED <<suite, match>>

\* process.stdout.readline() returns b'' : end of stream
AtEof == ~procAlive /\ wire = <<>>

(* ---------------- the reader thread ---------------- *)

\* _read_messages: while self.process.poll() is None
ReaderPoll ==
    /\ rpc = "poll"
    /\ rpc' = IF procAlive THEN "read" ELSE "done"
    /\ UNCHANGED <<message, sawEof>>
    /\ UNCHANGED <<peerVars, clientVars, execVars, histVars>>
    /\ UNCHANGED <<suite, match>>

\* _read_message on a frame that is present: the header loop ends at the
\* blank line; a missing or zero Content-Length or a body that does not parse
\* makes it return None, and _read_messages goes round its loop
ReaderReadFrame ==
    /\ rpc = "read"
    /\ wire # <<>>
    /\ LET f == Head(wire) IN
          IF f.ok
          THEN /\ message' = f.msg
               /\ rpc' = "handle"
          ELSE /\ message' = NoMsg
               /\ rpc' = "poll"
    /\ wire' = Tail(wire)
    /\ UNCHANGED sawEof
    /\ UNCHANGED <<procAlive, nframes, termSent, killSent>>
    /\ UNCHANGED <<clientVars, execVars, histVars>>
    /\ UNCHANGED <<suite, match>>

\* _read_message at end of stream: readline() returns b'', the line is
\* neither blank-line terminator nor a header, and the while True loop
\* reads again
ReaderReadEof ==
    /\ rpc = "read"
    /\ AtEof
    /\ sawEof' = TRUE
    /\ UNCHANGED <<rpc, message>>
    /\ UNCHANGED <<peerVars, clientVars, execVars, histVars>>
    /\ UNCHANGED <<suite, match>>

\* _handle_message: the branch taken on the message; when it returns, the
\* local variable message of _read_messages is dead
ReaderHandle ==
    /\ rpc = "handle"
    /\ IF HasId(message)
       THEN /\ rpc' = "h_lock"
            /\ UNCHANGED <<message, notifications, enqueued>>
       ELSE IF HasMethod(message)
       THEN /\ notifications' = Append(notifications, message)
            /\ enqueued' = enqueued \cup {message}
            /\ message' = NoMsg
            /\ rpc' = "poll"
       ELSE /\ message' = NoMsg
            /\ rpc' = "poll"
            /\ UNCHANGED <<notifications, enqueued>>
    /\ UNCHANGED sawEof
    /\ UNCHANGED <<request_id, pending_responses, lock>>
    /\ UNCHANGED <<usedIds, outbox, returned, delivered>>
    /\ UNCHANGED <<peerVars, execVars>>
    /\ UNCHANGED <<suite, match>>

\* _handle_message: with self.lock (acquire)
ReaderLock ==
    /\ rpc = "h_lock"
    /\ CanAcquire(lock)
    /\ lock' = "reader"
    /\ rpc' = "h_store"
    /\ UNCHANGED <<message, sawEof>>
    /\ UNCHANGED <<request_id, pending_responses, notifications>>
    /\ UNCHANGED <<peerVars, execVars, histVars>>
    /\ UNCHANGED <<suite, match>>

\* _handle_message: self.pending_responses[request_id] = message, then the
\* with block releases the lock
ReaderStore ==
    /\ rpc = "h_store"
    /\ pending_responses' = DictSet(pending_responses, message.id, message)
    /\ lock' = "free"
    /\ message' = NoMsg
    /\ rpc' = "poll"
    /\ UNCHANGED sawEof
    /\ UNCHANGED <<request_id, notifications>>
    /\ UNCHANGED <<peerVars, execVars, histVars>>
    /\ UNCHANGED <<suite, match>>

Reader ==
    \/ ReaderPoll
    \/ ReaderReadFrame
    \/ ReaderReadEof
    \/ ReaderHandle
    \/ ReaderLock
    \/ ReaderStore

(* ---------------- JsonRpcClient, called by the executor ---------------- *)

\* the message send_request writes: {"jsonrpc", "id", "method", "params"}
Request(id, method) == [id |-> id, method |-> method]

\* a notification that carries an id like a request
Notification_WithId(method) == [id |-> 1, method |-> method]

\* the message send_notification writes: {"jsonrpc", "method", "params"}, no
\* 'id' key
Notification(method) == [id |-> 0, method |-> method]

\* _send_message: the message is written to process.stdin and flushed
Written(box, m) == Append(box, m)

\* a send_request that forgets to advance the counter
NextRequestId_Reuse(r) == r

\* send_request: self.request_id += 1
NextRequestId(r) == r + 1

\* a wait loop without a deadline (while True)
TimeLeft_NoDeadline(e) == TRUE

\* wait_for_response / wait_for_notification: time.time() - start_time < timeout
TimeLeft(e) == e < TimeoutTicks

\* time.sleep / a blocking get that ran into its timeout: time has passed
Later(e) == IF e < TimeoutTicks THEN e + 1 ELSE e

\* a wait that takes whatever notification comes first
Matches_Any(n, method) == TRUE

\* wait_for_notification: notification.get('method') == method
Matches(n, method) == n.method = method

\* positions of the executor inside wait_for_response / wait_for_notification
WaitPcs == {"wr_loop", "wr_lock", "wr_check", "wn_loop", "wn_get", "wn_put"}

\* the clock advances while a wait is in progress; the wait reads it only
\* at the head of its loop
Tick ==
    /\ epc \in {"wr_loop", "wn_loop"}
    /\ elapsed < TimeoutTicks
    /\ elapsed' = elapsed + 1
    /\ UNCHANGED <<epc, stepIdx, success, waitId, waitMethod, collected, result>>
    /\ UNCHANGED <<peerVars, clientVars, readerVars, histVars>>
    /\ UNCHANGED <<suite, match>>

\* TestExecutor.execute: the for loop over the sequence takes the next step,
\* or the sequence is exhausted and the daemon is stopped
ExecNextStep ==
    /\ epc = "next"
    /\ \/ /\ stepIdx < MaxSteps
          /\ stepIdx' = stepIdx + 1
          /\ \/ /\ epc' = "send_req"
                /\ UNCHANGED <<waitMethod, elapsed, collected>>
             \/ /\ epc' = "send_ntf"
                /\ UNCHANGED <<waitMethod, elapsed, collected>>
             \/ \E m \in Methods :
                   \* _execute_expect_notification calls wait_for_notification:
                   \* start_time = time.time(); collected = []
                   /\ waitMethod' = m
                   /\ elapsed' = 0
                   /\ collected' = <<>>
                   /\ epc' = "wn_loop"
       \/ /\ epc' = "stop"
          /\ UNCHANGED <<stepIdx, waitMethod, elapsed, collected>>
    /\ UNCHANGED <<success, waitId, result>>
    /\ outbox' = <<>>
    /\ UNCHANGED <<usedIds, enqueued, returned, delivered>>
    /\ UNCHANGED <<peerVars, clientVars, readerVars>>
    /\ UNCHANGED <<suite, match>>

\* _execute_request: send_request(method, params), then wait_for_response
\* starts (start_time = time.time()).  _send_message raises on the closed
\* pipe of a peer that has exited; the exception leaves execute.
ExecSendRequest ==
    /\ epc = "send_req"
    /\ request_id' = NextRequestId(request_id)
    /\ usedIds' = Append(usedIds, request_id')
    /\ IF PipeOpen
       THEN /\ outbox' = Written(outbox, Request(request_id', "step"))
            /\ waitId' = request_id'
            /\ elapsed' = 0
            /\ epc' = "wr_loop"
       ELSE /\ epc' = "raised"
            /\ UNCHANGED <<outbox, waitId, elapsed>>
    /\ UNCHANGED <<stepIdx, success, waitMethod, collected, result>>
    /\ UNCHANGED <<pending_responses, notifications, lock>>
    /\ UNCHANGED <<enqueued, returned, delivered>>
    /\ UNCHANGED <<peerVars, readerVars>>
    /\ UNCHANGED <<suite, match>>

\* _execute_notification: send_notification(method, params); time.sleep(0.1);
\* return True
ExecSendNotification ==
    /\ epc = "send_ntf"
    /\ IF PipeOpen
       THEN /\ outbox' = Written(outbox, Notification("step"))
            /\ epc' = "next"
       ELSE /\ epc' = "raised"
            /\ UNCHANGED outbox
    /\ UNCHANGED <<stepIdx, success, waitId, waitMethod, elapsed, collected, result>>
    /\ UNCHANGED <<usedIds, enqueued, returned, delivered>>
    /\ UNCHANGED <<peerVars, clientVars, readerVars>>
    /\ UNCHANGED <<suite, match>>

\* wait_for_response: while time.time() - start_time < timeout ... return None
WaitResponseLoop ==
    /\ epc = "wr_loop"
    /\ IF TimeLeft(elapsed)
       THEN /\ epc' = "wr_lock"
            /\ UNCHANGED result
       ELSE /\ result' = None
            /\ epc' = "req_ret"
    /\ UNCHANGED <<stepIdx, success, waitId, waitMethod, elapsed, collected>>
    /\ UNCHANGED <<peerVars, clientVars, readerVars, histVars>>
    /\ UNCHANGED <<suite, match>>

\* wait_for_response: with self.lock (acquire)
WaitResponseLock ==
    /\ epc = "wr_lock"
    /\ CanAcquire(lock)
    /\ lock' = "exec"
    /\ epc' = "wr_check"
    /\ UNCHANGED <<stepIdx, success, waitId, waitMethod, elapsed, collected, result>>
    /\ UNCHANGED <<request_id, pending_responses, notifications>>
    /\ UNCHANGED <<peerVars, readerVars, histVars>>
    /\ UNCHANGED <<suite, match>>

\* wait_for_response, inside the with block: if the id is present, pop and
\* return it (the return releases the lock); otherwise leave the block and
\* time.sleep(0.01)
WaitResponseCheck ==
    /\ epc = "wr_check"
    /\ IF waitId \in DOMAIN pending_responses
       THEN /\ result' = pending_responses[waitId]
            /\ pending_responses' = DictPop(pending_responses, waitId)
            /\ returned' = Append(returned, pending_responses[waitId])
            /\ epc' = "req_ret"
            /\ UNCHANGED elapsed
       ELSE /\ elapsed' = Later(elapsed)
            /\ epc' = "wr_loop"
            /\ UNCHANGED <<result, pending_responses, returned>>
    /\ lock' = "free"
    /\ UNCHANGED <<stepIdx, success, waitId, waitMethod, collected>>
    /\ UNCHANGED <<request_id, notifications>>
    /\ UNCHANGED <<usedIds, outbox, enqueued, delivered>>
    /\ UNCHANGED <<peerVars, readerVars>>
    /\ UNCHANGED <<suite, match>>

\* _execute_request after wait_for_response: no response fails the step; an
\* unexpected error or a validation mismatch fails it; otherwise it passes.
\* The locals of the finished call are gone.
ExecRequestVerdict ==
    /\ epc = "req_ret"
    /\ IF result = None
       THEN /\ success' = FALSE
            /\ epc' = "stop"
       ELSE \/ /\ success' = FALSE
               /\ epc' = "stop"
            \/ /\ epc' = "next"
               /\ UNCHANGED success
    /\ waitId' = 0
    /\ elapsed' = 0
    /\ result' = None
    /\ UNCHANGED <<stepIdx, waitMethod, collected>>
    /\ UNCHANGED <<peerVars, clientVars, readerVars, histVars>>
    /\ UNCHANGED <<suite, match>>

\* wait_for_notification: while time.time() - start_time < timeout; after
\* the loop the collected notifications are put back
WaitNotificationLoop ==
    /\ epc = "wn_loop"
    /\ epc' = IF TimeLeft(elapsed) THEN "wn_get" ELSE "wn_put"
    /\ UNCHANGED <<stepIdx, success, waitId, waitMethod, elapsed, collected, result>>
    /\ UNCHANGED <<peerVars, clientVars, readerVars, histVars>>
    /\ UNCHANGED <<suite, match>>

\* wait_for_notification: notification = self.notifications.get(timeout=0.1).
\* A matching notification is returned at once; another one is appended to
\* collected; on an empty queue the get raises Empty after its timeout.
WaitNotificationGet ==
    /\ epc = "wn_get"
    /\ IF notifications # <<>>
       THEN LET notification == Head(notifications) IN
            /\ notifications' = Tail(notifications)
            /\ IF Matches(notification, waitMethod)
               THEN /\ result' = notification
                    /\ delivered' = delivered \cup {notification}
                    /\ epc' = "exp_ret"
                    /\ UNCHANGED collected
               ELSE /\ collected' = Append(collected, notification)
                    /\ epc' = "wn_loop"
                    /\ UNCHANGED <<result, delivered>>
            /\ UNCHANGED elapsed
       ELSE /\ elapsed' = Later(elapsed)
            /\ epc' = "wn_loop"
            /\ UNCHANGED <<notifications, collected, result, delivered>>
    /\ UNCHANGED <<stepIdx, success, waitId, waitMethod>>
    /\ UNCHANGED <<request_id, pending_responses, lock>>
    /\ UNCHANGED <<usedIds, outbox, enqueued, returned>>
    /\ UNCHANGED <<peerVars, readerVars>>
    /\ UNCHANGED <<suite, match>>

\* wait_for_notification: for notif in collected: self.notifications.put(notif);
\* return None
WaitNotificationPutBack ==
    /\ epc = "wn_put"
    /\ IF collected # <<>>
       THEN /\ notifications' = Append(notifications, Head(collected))
            /\ collected' = Tail(collected)
            /\ UNCHANGED <<epc, result>>
       ELSE /\ result' = None
            /\ epc' = "exp_ret"
            /\ UNCHANGED <<notifications, collected>>
    /\ UNCHANGED <<stepIdx, success, waitId, waitMethod, elapsed>>
    /\ UNCHANGED <<request_id, pending_responses, lock>>
    /\ UNCHANGED <<peerVars, readerVars, histVars>>
    /\ UNCHANGED <<suite, match>>

\* _execute_expect_notification after wait_for_notification: no notification
\* fails the step; a params mismatch fails it; otherwise it passes.  The
\* local list collected of the finished call is gone.
ExecExpectVerdict ==
    /\ epc = "exp_ret"
    /\ IF result = None
       THEN /\ success' = FALSE
            /\ epc' = "stop"
       ELSE \/ /\ success' = FALSE
               /\ epc' = "stop"
            \/ /\ epc' = "next"
               /\ UNCHANGED success
    /\ waitMethod' = "none"
    /\ elapsed' = 0
    /\ collected' = <<>>
    /\ result' = None
    /\ UNCHANGED <<stepIdx, waitId>>
    /\ UNCHANGED <<peerVars, clientVars, readerVars, histVars>>
    /\ UNCHANGED <<suite, match>>

(* ---------------- LSPDaemonManager.stop ---------------- *)

\* a test that takes every process for running
StillRunning_Always(alive) == TRUE

\* self.process.poll() is None
StillRunning(alive) == alive

\* stop: self.client.send_request("shutdown", {}); time.sleep(0.2).  An
\* exception of the send is caught by the except clause of stop.
StopShutdown ==
    /\ epc = "stop"
    /\ request_id' = NextRequestId(request_id)
    /\ usedIds' = Append(usedIds, request_id')
    /\ IF PipeOpen
       THEN /\ outbox' = Written(outbox, Request(request_id', "shutdown"))
            /\ epc' = "stop_exit"
       ELSE /\ epc' = "done"
            /\ UNCHANGED outbox
    /\ UNCHANGED <<stepIdx, success, waitId, waitMethod, elapsed, collected, result>>
    /\ UNCHANGED <<pending_responses, notifications, lock>>
    /\ UNCHANGED <<enqueued, returned, delivered>>
    /\ UNCHANGED <<peerVars, readerVars>>
    /\ UNCHANGED <<suite, match>>

\* stop: self.client.send_notification("exit", {}); time.sleep(0.2)
StopExit ==
    /\ epc = "stop_exit"
    /\ IF PipeOpen
       THEN /\ outbox' = Written(outbox, Notification("exit"))
            /\ epc' = "stop_poll"
       ELSE /\ epc' = "done"
            /\ UNCHANGED outbox
    /\ UNCHANGED <<stepIdx, success, waitId, waitMethod, elapsed, collected, result>>
    /\ UNCHANGED <<usedIds, enqueued, returned, delivered>>
    /\ UNCHANGED <<peerVars, clientVars, readerVars>>
    /\ UNCHANGED <<suite, match>>

\* stop: if self.process.poll() is None: self.process.terminate();
\* time.sleep(0.5)
StopTerminate ==
    /\ epc = "stop_poll"
    /\ IF StillRunning(procAlive)
       THEN /\ termSent' = TRUE
            /\ epc' = "stop_poll2"
       ELSE /\ epc' = "done"
            /\ UNCHANGED termSent
    /\ UNCHANGED <<procAlive, wire, nframes, killSent>>
    /\ UNCHANGED <<stepIdx, success, waitId, waitMethod, elapsed, collected, result>>
    /\ UNCHANGED <<clientVars, readerVars, histVars>>
    /\ UNCHANGED <<suite, match>>

\* stop: if self.process.poll() is None: self.process.kill()
StopKill ==
    /\ epc = "stop_poll2"
    /\ IF StillRunning(procAlive)
       THEN /\ killSent' = TRUE
            /\ procAlive' = FALSE
       ELSE UNCHANGED <<killSent, procAlive>>
    /\ epc' = "done"
    /\ UNCHANGED <<wire, nframes, termSent>>
    /\ UNCHANGED <<stepIdx, success, waitId, waitMethod, elapsed, collected, result>>
    /\ UNCHANGED <<clientVars, readerVars, histVars>>
    /\ UNCHANGED <<suite, match>>

Executor ==
    \/ ExecNextStep
    \/ ExecSendRequest
    \/ ExecSendNotification
    \/ WaitResponseLoop
    \/ WaitResponseLock
    \/ WaitResponseCheck
    \/ ExecRequestVerdict
    \/ WaitNotificationLoop
    \/ WaitNotificationGet
    \/ WaitNotificationPutBack
    \/ ExecExpectVerdict
    \/ StopShutdown
    \/ StopExit
    \/ StopTerminate
    \/ StopKill

(* ---------------- specifications ---------------- *)

Next ==
    \/ PeerSend
    \/ PeerExit
    \/ ReaderPoll
    \/ ReaderReadFrame
    \/ ReaderReadEof
    \/ ReaderHandle
    \/ ReaderLock
    \/ ReaderStore
    \/ Tick
    \/ ExecNextStep
    \/ ExecSendRequest
    \/ ExecSendNotification
    \/ WaitResponseLoop
    \/ WaitResponseLock
    \/ WaitResponseCheck
    \/ ExecRequestVerdict
    \/ WaitNotificationLoop
    \/ WaitNotificationGet
    \/ WaitNotificationPutBack
    \/ ExecExpectVerdict
    \/ StopShutdown
    \/ StopExit
    \/ StopTerminate
    \/ StopKill

Spec == Init /\ [][Next]_vars

\* some enabled step is eventually taken
LiveSpec == Spec /\ WF_vars(Next)

\* both threads are scheduled and the clock advances
FairSpec == Spec /\ WF_vars(Executor) /\ WF_vars(Reader) /\ WF_vars(Tick)

(* ---------------- a run of a runner over its test files ---------------- *)

\* the three runner programs
Runners == {"lsp", "mcp", "mcpserver"}

\* positions of main at which the process has ended: it returned its exit
\* status, or an exception nobody caught ended it
EndPcs == {"exited", "crashed"}

\* state of the connection that a run does not look at below the level of
\* whole steps
connRest == <<wire, nframes, pending_responses, notifications, lock, readerVars,
              waitId, waitMethod, elapsed, collected, result, enqueued, returned, delivered>>

procVars == <<procAlive, termSent, killSent>>

clientIds == <<request_id, usedIds, outbox>>

\* the program has been started; nothing is discovered, no peer runs
RunInit ==
    /\ procAlive = FALSE
    /\ wire = <<>>
    /\ nframes = 0
    /\ termSent = FALSE
    /\ killSent = FALSE
    /\ request_id = 0
    /\ pending_responses = <<>>
    /\ notifications = <<>>
    /\ lock = "free"
    /\ rpc = "poll"
    /\ message = NoMsg
    /\ sawEof = FALSE
    /\ epc = "idle"
    /\ stepIdx = 0
    /\ success = TRUE
    /\ waitId = 0
    /\ waitMethod = "none"
    /\ elapsed = 0
    /\ collected = <<>>
    /\ result = None
    /\ usedIds = <<>>
    /\ outbox = <<>>
    /\ enqueued = {}
    /\ returned = <<>>
    /\ delivered = {}
    /\ \E r \in Runners :
          suite = [stdinOpen |-> FALSE,      \* the peer still has its stdin (the client's pipe) open
                   runner |-> r,             \* the runner program: "lsp", "mcp" or "mcpserver"
                   mpc |-> "start",          \* position of main / run_tests
                   ntests |-> -1,            \* len(tests) of the discovered test files, -1 before discovery
                   fileIdx |-> 0,            \* number of the test file the loop over the tests is at
                   passed |-> 0,             \* passed / self.passed_tests
                   failed |-> 0,             \* failed / self.failed_tests
                   exitCode |-> -1,          \* exit status of the process, -1 while it runs
                   spawned |-> 0,            \* number of peer processes started so far; the current one has this number
                   startedByUs |-> FALSE,    \* daemon_started_by_us of mcp-runner's main
                   talked |-> {},            \* pairs <<test file, peer process>> that exchanged a message in a step
                   stopInvoked |-> FALSE,    \* the manager's stop was called for the current peer process
                   ran |-> {},               \* pairs <<test file, step number>> of the steps executed
                   failedAt |-> [f \in 1..MaxFiles |-> 0],         \* per test file, the number of its step that failed (0: none)
                   verdicts |-> [f \in 1..MaxFiles |-> "none"],    \* per test file "none", "Passed" or "Failed"
                   response |-> NoResponse,  \* local variable response of the last request step
                   expect |-> NoExpect,      \* local variable expect of the last request step
                   stepVerdict |-> "none",   \* what the last request step printed and returned
                   stepType |-> "none",      \* step_type of the step the loop of the current file is at ("none" outside a step)
                   preexisting |-> FALSE]    \* the daemon on the port was running before this run
    /\ MatchIdle

\* subprocess.Popen succeeded and the process is running; s is the state of
\* the run otherwise
SpawnPeer(s) ==
    /\ procAlive' = TRUE
    /\ termSent' = FALSE
    /\ killSent' = FALSE
    /\ suite' = [s EXCEPT !.stdinOpen = TRUE, !.spawned = @ + 1, !.stopInvoked = FALSE]

\* the current test file is counted as failed
FileFailed(s) == [s EXCEPT !.failed = @ + 1, !.verdicts[s.fileIdx] = "Failed"]

\* a verdict that is recorded without being counted
FilePassed_Uncounted(s) == [s EXCEPT !.verdicts[s.fileIdx] = "Passed"]

\* the current test file is counted as passed
FilePassed(s) == [s EXCEPT !.passed = @ + 1, !.verdicts[s.fileIdx] = "Passed"]

\* the process ends with exit status code
Exit(s, code) == [s EXCEPT !.exitCode = code, !.mpc = "exited"]

\* a for loop that skips an item of the sequence
NextIndex_Skip(i) == i + 2

\* enumerate(sequence): the loop goes on to the next item
NextIndex(i) == i + 1

\* step i of the current file is being executed
TakeStep(s, i) == [s EXCEPT !.ran = @ \cup {<<s.fileIdx, i>>}]

\* the step being executed exchanges a message with the current peer process
Talk(s) == [s EXCEPT !.talked = @ \cup {<<s.fileIdx, s.spawned>>}]

\* step i is the one at which the current file fails
StepFails(s, i) == [s EXCEPT !.failedAt[s.fileIdx] = i]

\* step.get('type') of the step being executed
OfType(s, type) == [s EXCEPT !.stepType = type]

\* a loop that takes a step of another type for a failed one
Skipped_Fails(s, i) == StepFails(OfType(TakeStep(s, i), "other"), i)

\* the else branch of the loop over the sequence: step i has a type the
\* runner does not know; a warning is printed and the loop goes on
Skipped(s, i) == OfType(TakeStep(s, i), "other")

\* the peer closes its stdin and keeps running
PeerCloseStdin ==
    /\ suite.runner \in {"lsp", "mcpserver"}
    /\ procAlive
    /\ suite.stdinOpen
    /\ suite' = [suite EXCEPT !.stdinOpen = FALSE]
    /\ UNCHANGED <<procVars, clientIds, epc, stepIdx, success, connRest, match>>

(* ---- lsp-runner.py ---- *)

\* main: the early returns on a missing test directory or jar, then test
\* discovery; no test found returns 0
LspMain ==
    /\ suite.runner = "lsp"
    /\ suite.mpc = "start"
    /\ \/ suite' = Exit(suite, 1)
       \/ \E n \in 0..MaxFiles :
             suite' = IF n = 0
                      THEN Exit([suite EXCEPT !.ntests = n], 0)
                      ELSE [suite EXCEPT !.ntests = n, !.mpc = "loop"]
    /\ UNCHANGED <<procVars, clientIds, epc, stepIdx, success, connRest, match>>

\* main: for test_file in tests: a TestExecutor is made and load_test is
\* called (a failure counts the file as failed); after the loop the summary
\* is printed and the exit status returned
LspNextFile ==
    /\ suite.runner = "lsp"
    /\ suite.mpc = "loop"
    /\ IF suite.fileIdx < suite.ntests
       THEN \/ /\ suite' = FileFailed([suite EXCEPT !.fileIdx = @ + 1])
               /\ UNCHANGED epc
            \/ /\ suite' = [suite EXCEPT !.fileIdx = @ + 1, !.mpc = "exec"]
               /\ epc' = "begin"
       ELSE /\ suite' = Exit(suite, IF suite.failed = 0 THEN 0 ELSE 1)
            /\ UNCHANGED epc
    /\ UNCHANGED <<procVars, clientIds, stepIdx, success, connRest, match>>

\* TestExecutor.execute up to the loop: empty test data or a daemon that does
\* not start returns False; otherwise LSPDaemonManager.start gives a new
\* process and a new JsonRpcClient, and success = True
ExecStart ==
    /\ suite.runner = "lsp"
    /\ suite.mpc = "exec"
    /\ epc = "begin"
    /\ LET s == [suite EXCEPT !.response = NoResponse,
                              !.expect = NoExpect,
                              !.stepVerdict = "none",
                              !.stepType = "none"]
       IN  \/ /\ success' = FALSE
              /\ epc' = "ret"
              /\ suite' = s
              /\ UNCHANGED <<procVars, clientIds, stepIdx>>
           \/ /\ SpawnPeer(s)
              /\ request_id' = 0
              /\ usedIds' = <<>>
              /\ outbox' = <<>>
              /\ stepIdx' = 0
              /\ success' = TRUE
              /\ epc' = "run"
    /\ UNCHANGED <<connRest, match>>

\* execute, a step of type 'request' (_execute_request): send_request takes
\* the next id and raises on a closed pipe; otherwise the step waits for the
\* response and judges it; a failed step sets success = False and breaks out
\* of the loop to self.daemon.stop()
ExecRequestStep ==
    /\ suite.runner = "lsp"
    /\ suite.mpc = "exec"
    /\ epc = "run"
    /\ stepIdx < MaxSteps
    /\ stepIdx' = NextIndex(stepIdx)
    /\ request_id' = NextRequestId(request_id)
    /\ usedIds' = Append(usedIds, request_id')
    /\ outbox' = IF PipeOpen THEN Written(<<>>, Request(request_id', "step")) ELSE <<>>
    /\ IF ~PipeOpen
       THEN /\ epc' = "raised"
            /\ suite' = StepFails(OfType(TakeStep(suite, stepIdx'), "request"), stepIdx')
            /\ UNCHANGED success
       ELSE \E r \in Responses, e \in Expects :
               LET s == [Talk(OfType(TakeStep(suite, stepIdx'), "request")) EXCEPT
                             !.response = r,
                             !.expect = e,
                             !.stepVerdict = ExecuteRequest(r, e)]
               IN  IF s.stepVerdict = "Passed"
                   THEN /\ suite' = s
                        /\ UNCHANGED <<epc, success>>
                   ELSE /\ success' = FALSE
                        /\ epc' = "stop"
                        /\ suite' = [StepFails(s, stepIdx') EXCEPT !.stopInvoked = TRUE]
    /\ UNCHANGED <<procVars, connRest, match>>

\* execute, a step of type 'notification' (_execute_notification):
\* send_notification raises on a closed pipe, otherwise the step passes
ExecNotificationStep ==
    /\ suite.runner = "lsp"
    /\ suite.mpc = "exec"
    /\ epc = "run"
    /\ stepIdx < MaxSteps
    /\ stepIdx' = NextIndex(stepIdx)
    /\ IF ~PipeOpen
       THEN /\ epc' = "raised"
            /\ suite' = StepFails(OfType(TakeStep(suite, stepIdx'), "notification"), stepIdx')
       ELSE /\ suite' = Talk(OfType(TakeStep(suite, stepIdx'), "notification"))
            /\ UNCHANGED epc
    /\ outbox' = IF PipeOpen THEN Written(<<>>, Notification("step")) ELSE <<>>
    /\ UNCHANGED <<procVars, request_id, usedIds, success, connRest, match>>

\* execute, a step of type 'expect_notification'
\* (_execute_expect_notification): no matching notification before the
\* deadline or a params mismatch fails the step
ExecExpectStep ==
    /\ suite.runner = "lsp"
    /\ suite.mpc = "exec"
    /\ epc = "run"
    /\ stepIdx < MaxSteps
    /\ stepIdx' = NextIndex(stepIdx)
    /\ LET s == Talk(OfType(TakeStep(suite, stepIdx'), "expect_notification"))
       IN  \/ /\ suite' = s
              /\ UNCHANGED <<epc, success>>
           \/ /\ success' = FALSE
              /\ epc' = "stop"
              /\ suite' = [StepFails(s, stepIdx') EXCEPT !.stopInvoked = TRUE]
    /\ UNCHANGED <<procVars, request_id, usedIds, connRest, match>>
    /\ outbox' = <<>>

\* execute, a step of any other type: a warning is printed
ExecUnknownStep ==
    /\ suite.runner = "lsp"
    /\ suite.mpc = "exec"
    /\ epc = "run"
    /\ stepIdx < MaxSteps
    /\ stepIdx' = NextIndex(stepIdx)
    /\ suite' = Skipped(suite, stepIdx')
    /\ UNCHANGED <<procVars, request_id, usedIds, epc, success, connRest, match>>
    /\ outbox' = <<>>

\* execute: the sequence is exhausted; self.daemon.stop() is called
ExecSequenceEnd ==
    /\ suite.runner = "lsp"
    /\ suite.mpc = "exec"
    /\ epc = "run"
    /\ epc' = "stop"
    /\ suite' = [suite EXCEPT !.stopInvoked = TRUE]
    /\ UNCHANGED <<procVars, request_id, usedIds, stepIdx, success, connRest, match>>
    /\ outbox' = <<>>

\* execute returns success (after stop, or False before the daemon ran) and
\* main counts the file as passed or failed
ExecReturn ==
    /\ suite.runner = "lsp"
    /\ suite.mpc = "exec"
    /\ epc \in {"done", "ret"}
    /\ epc' = "idle"
    /\ suite' = [(IF success THEN FilePassed(suite) ELSE FileFailed(suite)) EXCEPT
                     !.mpc = "loop", !.stepType = "none"]
    /\ UNCHANGED <<procVars, clientIds, stepIdx, success, connRest, match>>

\* main has no handler around executor.execute(): the exception of a step
\* ends the process with a traceback and exit status 1
MainUncaught ==
    /\ suite.runner = "lsp"
    /\ suite.mpc = "exec"
    /\ epc = "raised"
    /\ suite' = [suite EXCEPT !.mpc = "crashed", !.exitCode = 1]
    /\ UNCHANGED <<procVars, clientIds, epc, stepIdx, success, connRest, match>>

(* ---- mcp-server-runner.py ---- *)

\* main and run_tests up to the loop: early returns of main; no test file
\* returns 0; one McpServerManager is started for the whole run, and a
\* server that does not start returns 1
McpServerRunTests ==
    /\ suite.runner = "mcpserver"
    /\ suite.mpc = "start"
    /\ \/ /\ suite' = Exit(suite, 1)
          /\ UNCHANGED procVars
       \/ \E n \in 0..MaxFiles :
             LET s == [suite EXCEPT !.ntests = n]
             IN  IF n = 0
                 THEN suite' = Exit(s, 0) /\ UNCHANGED procVars
                 ELSE \/ suite' = Exit(s, 1) /\ UNCHANGED procVars
                      \/ SpawnPeer([s EXCEPT !.mpc = "loop"])
    /\ UNCHANGED <<clientIds, epc, stepIdx, success, connRest, match>>

\* run_tests: for test_file in test_files: total_tests += 1 and
\* run_test_file is entered (a file that does not load returns False); after
\* the loop the summary is printed and the exit status returned, and the
\* finally clause follows
McpServerNextFile ==
    /\ suite.runner = "mcpserver"
    /\ suite.mpc = "loop"
    /\ IF suite.fileIdx < suite.ntests
       THEN /\ stepIdx' = 0
            /\ \/ suite' = FileFailed([suite EXCEPT !.fileIdx = @ + 1])
               \/ suite' = [suite EXCEPT !.fileIdx = @ + 1, !.mpc = "exec"]
       ELSE /\ suite' = [suite EXCEPT !.exitCode = IF suite.failed = 0 THEN 0 ELSE 1,
                                      !.mpc = "finally"]
            /\ UNCHANGED stepIdx
    /\ UNCHANGED <<procVars, clientIds, epc, success, connRest, match>>

\* run_test_file, one step of the sequence: a step without request or
\* expect is skipped; send_request returns None on a closed pipe, at end of
\* stream or on a line that is not JSON, and the file fails; otherwise
\* deep_compare(expect, response) decides
McpServerStep ==
    /\ suite.runner = "mcpserver"
    /\ suite.mpc = "exec"
    /\ stepIdx < MaxSteps
    /\ stepIdx' = NextIndex(stepIdx)
    /\ LET s == TakeStep(suite, stepIdx')
           lost == [FileFailed(StepFails(s, stepIdx')) EXCEPT !.mpc = "loop"]
       IN  \/ suite' = s
           \/ suite' = IF PipeOpen THEN Talk(lost) ELSE lost
           \/ /\ PipeOpen
              /\ \E e \in StepResults, r \in StepResults :
                    suite' = IF DeepCompareMcpServer(e, r) THEN Talk(s) ELSE Talk(lost)
    /\ UNCHANGED <<procVars, clientIds, epc, success, connRest, match>>

\* run_test_file: the sequence is empty or exhausted: return True
McpServerFileEnd ==
    /\ suite.runner = "mcpserver"
    /\ suite.mpc = "exec"
    /\ suite' = [FilePassed(suite) EXCEPT !.mpc = "loop"]
    /\ UNCHANGED <<procVars, clientIds, epc, stepIdx, success, connRest, match>>

\* McpServerManager.stop, called by the finally clause of run_tests:
\* self.process.terminate()
McpServerStop ==
    /\ suite.runner = "mcpserver"
    /\ suite.mpc = "finally"
    /\ termSent' = TRUE
    /\ suite' = [suite EXCEPT !.stopInvoked = TRUE, !.mpc = "stop_wait"]
    /\ UNCHANGED <<procAlive, killSent>>
    /\ UNCHANGED <<clientIds, epc, stepIdx, success, connRest, match>>

\* McpServerManager.stop: self.process.wait(timeout=5) returns once the
\* process has exited; on TimeoutExpired the process is killed
McpServerStopWait ==
    /\ suite.runner = "mcpserver"
    /\ suite.mpc = "stop_wait"
    /\ IF procAlive
       THEN /\ killSent' = TRUE
            /\ procAlive' = FALSE
       ELSE UNCHANGED <<killSent, procAlive>>
    /\ suite' = [suite EXCEPT !.mpc = "exited"]
    /\ UNCHANGED termSent
    /\ UNCHANGED <<clientIds, epc, stepIdx, success, connRest, match>>

(* ---- mcp-runner.py ---- *)

\* main up to the try block: a missing test path returns 1; a daemon that
\* answers main's health check on args.host (or --no-auto-start) is used as
\* it is.  Otherwise DaemonManager.start is called: its own health check (on
\* localhost) may find a daemon that main's check did not, and start returns
\* True without a process; or it starts one, and returns False (main
\* returns 1) when the jar is missing or when the process it started does
\* not answer within the timeout.  After a True, daemon_started_by_us = True
McpMain ==
    /\ suite.runner = "mcp"
    /\ suite.mpc = "start"
    /\ \/ /\ suite' = Exit(suite, 1)
          /\ UNCHANGED procVars
       \/ /\ procAlive' = TRUE
          /\ suite' = [suite EXCEPT !.preexisting = TRUE, !.mpc = "discover"]
          /\ UNCHANGED <<termSent, killSent>>
       \/ /\ procAlive' = TRUE
          /\ suite' = [suite EXCEPT !.preexisting = TRUE, !.startedByUs = TRUE, !.mpc = "discover"]
          /\ UNCHANGED <<termSent, killSent>>
       \/ SpawnPeer([suite EXCEPT !.startedByUs = TRUE, !.mpc = "discover"])
       \/ SpawnPeer(Exit(suite, 1))
    /\ UNCHANGED <<clientIds, epc, stepIdx, success, connRest, match>>

\* main: discover_tests, then run_tests is entered: no test file returns 1
McpRunTests ==
    /\ suite.runner = "mcp"
    /\ suite.mpc = "discover"
    /\ \E n \in 0..MaxFiles :
          suite' = IF n = 0
                   THEN [suite EXCEPT !.ntests = n, !.exitCode = 1, !.mpc = "finally"]
                   ELSE [suite EXCEPT !.ntests = n, !.mpc = "loop"]
    /\ UNCHANGED <<procVars, clientIds, epc, stepIdx, success, connRest, match>>

\* run_tests: for test_file in test_files: run_test is entered
\* (total_tests += 1; a file that does not load is counted as failed); after
\* the loop the summary is printed and the exit status returned
McpNextFile ==
    /\ suite.runner = "mcp"
    /\ suite.mpc = "loop"
    /\ IF suite.fileIdx < suite.ntests
       THEN /\ stepIdx' = 0
            /\ \/ suite' = FileFailed([suite EXCEPT !.fileIdx = @ + 1, !.stepType = "none"])
               \/ suite' = [suite EXCEPT !.fileIdx = @ + 1, !.stepType = "none", !.mpc = "exec"]
       ELSE /\ suite' = [suite EXCEPT !.exitCode = IF suite.failed = 0 THEN 0 ELSE 1,
                                      !.stepType = "none",
                                      !.mpc = "finally"]
            /\ UNCHANGED stepIdx
    /\ UNCHANGED <<procVars, clientIds, epc, success, connRest, match>>

\* run_test, one step of the sequence: a step of another type than
\* 'request' is skipped; execute_request fails on a timeout, a connection
\* error or an unsupported method, and the file fails; otherwise
\* validate_response (deep_compare on the body) decides
McpStep ==
    /\ suite.runner = "mcp"
    /\ suite.mpc = "exec"
    /\ stepIdx < MaxSteps
    /\ stepIdx' = NextIndex(stepIdx)
    /\ LET s == OfType(TakeStep(suite, stepIdx'), "request")
           lost == [FileFailed(StepFails(s, stepIdx')) EXCEPT !.mpc = "loop"]
       IN  \/ suite' = Skipped(suite, stepIdx')
           \/ suite' = IF procAlive THEN Talk(lost) ELSE lost
           \/ /\ procAlive
              /\ \E e \in StepResults, r \in StepResults :
                    suite' = IF DeepCompareMcp(e, r) THEN Talk(s) ELSE Talk(lost)
    /\ UNCHANGED <<procVars, clientIds, epc, success, connRest, match>>

\* run_test: the sequence is exhausted: passed_tests += 1; return True
McpFileEnd ==
    /\ suite.runner = "mcp"
    /\ suite.mpc = "exec"
    /\ suite' = [FilePassed(suite) EXCEPT !.mpc = "loop"]
    /\ UNCHANGED <<procVars, clientIds, epc, stepIdx, success, connRest, match>>

\* main, finally clause: if daemon_started_by_us: daemon.stop().  With a
\* process of its own stop begins with self.process.terminate(); without
\* one it runs pkill -f "utlxd.*--port <port>", which signals whatever
\* daemon runs on the port
McpFinally ==
    /\ suite.runner = "mcp"
    /\ suite.mpc = "finally"
    /\ IF suite.startedByUs
       THEN IF suite.spawned > 0
            THEN /\ termSent' = TRUE
                 /\ suite' = [suite EXCEPT !.stopInvoked = TRUE, !.mpc = "stop_wait"]
            ELSE /\ termSent' = procAlive
                 /\ suite' = [suite EXCEPT !.stopInvoked = TRUE, !.mpc = "exited"]
       ELSE /\ suite' = [suite EXCEPT !.mpc = "exited"]
            /\ UNCHANGED termSent
    /\ UNCHANGED <<procAlive, killSent>>
    /\ UNCHANGED <<clientIds, epc, stepIdx, success, connRest, match>>

\* DaemonManager.stop: self.process.wait(timeout=5) returns once the process
\* has exited; on TimeoutExpired the process is killed
McpStopWait ==
    /\ suite.runner = "mcp"
    /\ suite.mpc = "stop_wait"
    /\ IF procAlive
       THEN /\ killSent' = TRUE
            /\ procAlive' = FALSE
       ELSE UNCHANGED <<killSent, procAlive>>
    /\ suite' = [suite EXCEPT !.mpc = "exited"]
    /\ UNCHANGED termSent
    /\ UNCHANGED <<clientIds, epc, stepIdx, success, connRest, match>>

RunNext ==
    \/ PeerExit
    \/ PeerCloseStdin
    \/ LspMain
    \/ LspNextFile
    \/ ExecStart
    \/ ExecRequestStep
    \/ ExecNotificationStep
    \/ ExecExpectStep
    \/ ExecUnknownStep
    \/ ExecSequenceEnd
    \/ StopShutdown
    \/ StopExit
    \/ StopTerminate
    \/ StopKill
    \/ ExecReturn
    \/ MainUncaught
    \/ McpServerRunTests
    \/ McpServerNextFile
    \/ McpServerStep
    \/ McpServerFileEnd
    \/ McpServerStop
    \/ McpServerStopWait
    \/ McpMain
    \/ McpRunTests
    \/ McpNextFile
    \/ McpStep
    \/ McpFileEnd
    \/ McpFinally
    \/ McpStopWait

RunSpec == RunInit /\ [][RunNext]_vars

(* ---------------- the matchers applied to drawn values ---------------- *)

\* values a key is added with, or an array is extended with
ExtraValues == Scalars \cup {JObj(<<>>), JArr(<<>>)}

\* a pattern and an actual value on which no matcher has run yet
Drawn(e, a) == [pattern |-> e, actual |-> a, matched |-> NotApplied, errors |-> NoErrors]

\* the matchers were called on expected e and actual a: matched and errors
\* are what each returned
Called(e, a) ==
    [pattern |-> e, actual |-> a, matched |-> MatchAll(e, a), errors |-> ErrorsAll(e, a)]

\* a pattern and an actual value are drawn; no matcher has run: pattern and
\* actual are the arguments expected and actual of the matcher, matched tells
\* per matcher whether it reported no error
MatchInit ==
    /\ ConnInit
    /\ SuiteInit
    /\ \E e \in Patterns, a \in Actuals :
          match = Drawn(e, a)

\* the three matchers are called on the pair
MatchApply ==
    /\ ~match.matched.applied
    /\ match' = Called(match.pattern, match.actual)
    /\ UNCHANGED <<peerVars, clientVars, readerVars, execVars, histVars, suite>>

\* the actual object gets one more key, and the matchers are called again
MatchExtend ==
    /\ match.matched.applied
    /\ match.actual.t = "obj"
    /\ \E key \in Range(Keys) \ KeysOf(match.actual), v \in ExtraValues :
          match' = Called(match.pattern,
                          JObj(Append(match.actual.kids, [k |-> key, val |-> v])))
    /\ UNCHANGED <<peerVars, clientVars, readerVars, execVars, histVars, suite>>

\* the actual array gets one more item at its end, and the matchers are
\* called again
MatchAppend ==
    /\ match.matched.applied
    /\ match.actual.t = "arr"
    /\ Len(match.actual.kids) <= MaxLen
    /\ \E v \in ExtraValues :
          match' = Called(match.pattern,
                          JArr(Append(match.actual.kids, [k |-> "", val |-> v])))
    /\ UNCHANGED <<peerVars, clientVars, readerVars, execVars, histVars, suite>>

\* one item is removed from the actual array, and the matchers are called
\* again
MatchRemove ==
    /\ match.matched.applied
    /\ match.actual.t = "arr"
    /\ \E i \in DOMAIN match.actual.kids :
          match' = Called(match.pattern,
                          JArr(SubSeq(match.actual.kids, 1, i - 1)
                               \o SubSeq(match.actual.kids, i + 1, Len(match.actual.kids))))
    /\ UNCHANGED <<peerVars, clientVars, readerVars, execVars, histVars, suite>>

MatchNext ==
    \/ MatchApply
    \/ MatchExtend
    \/ MatchAppend
    \/ MatchRemove

MatchSpec == MatchInit /\ [][MatchNext]_vars

(* ---------------- the matchers applied to leaf values ---------------- *)

\* a UUID, a timestamp and the uri of the document test_doc
SomeUuid == "123e4567-e89b-12d3-A456-426614174000"

SomeTimestamp == "2024-01-02T03:04:05Z"

SomeUri == "file:///test.utlx"

\* the placeholders of the MCP test files, and two that no runner knows
Placeholders ==
    {JStr(x) : x \in {"{{ANY}}", "{{NUMBER}}", "{{STRING}}", "{{BOOLEAN}}", "{{JSON}}",
                      "{{TIMESTAMP}}", "{{ISO8601}}", "{{UUID}}", "{{FOO}}", "{{ NUMBER }}",
                      "{{REGEX:^v[0-9]+$}}", "{{REGEX:b}}"}}

\* template tokens of the LSP test files: paths that resolve and paths
\* that do not
Tokens ==
    {JStr(x) : x \in {"{{documents.test_doc.uri}}", "{{ documents.test_doc.uri }}",
                      "{{documents.nodoc.uri}}", "{{documents.test_doc.missing}}",
                      "{{documents.test_doc.uri.x}}", "{{documents.test_doc.n.m}}",
                      "{{documents.test_doc.n.x.y}}", "{{documents}}",
                      "{{variables.v}}", "{{variables.missing}}", "{{variables.v.x}}",
                      "{{foo}}", "a{{variables.v}}b{{variables.v}}"}}

\* literal leaves
Literals ==
    {JNull, JBool(TRUE), JBool(FALSE), JNum(0), JNum(1), JNum(2), JFloat(1),
     JStr("v2"), JStr("ab"), JStr("1")}

\* a capabilities object, as an initialize response carries it
Capabilities ==
    JObj(<<Member("capabilities", JObj(<<Member("hoverProvider", JBool(TRUE)),
                                          Member("completionProvider", JBool(FALSE))>>))>>)

\* an expectation on it with a nested 'contains'
CapabilitiesPattern ==
    JObj(<<Member("capabilities",
                  JObj(<<Member("contains", ListOf(<<JStr("hoverProvider")>>))>>))>>)

\* 'contains' expectations
ContainsPatterns ==
    {JObj(<<Member("contains", ListOf(q))>>) :
        q \in {<<>>, <<JStr("b")>>, <<JStr("a"), JStr("b")>>, <<JStr("b"), JStr("zz")>>,
               <<JStr("capabilities")>>, <<JStr("\"hoverProvider\": true")>>}} \cup
    {JObj(<<Member("contains", ListOf(<<JStr("b")>>)), Member("a", JNum(1))>>),
     JObj(<<Member("a", JNum(1)), Member("contains", ListOf(<<JStr("zz")>>))>>),
     JObj(<<Member("contains", JStr("b"))>>)}

\* the params of an expected notification and the params of received ones
UriPattern == JObj(<<Member("uri", JStr("{{documents.test_doc.uri}}"))>>)

UriParams == {JObj(<<Member("uri", JStr(u))>>) : u \in {SomeUri, "file:///other.utlx"}}

\* two-key patterns whose keys can both be absent or both differ
PairPatterns ==
    {JObj(<<Member("a", x), Member("b", y)>>) : x, y \in {JNull, JNum(1)}}

PairActuals ==
    {JObj(<<>>),
     JObj(<<Member("a", JNum(2)), Member("b", JNum(2))>>),
     JObj(<<Member("a", JNum(1)), Member("b", JNum(2))>>),
     JObj(<<Member("a", JNum(1)), Member("b", JNum(1))>>)}

LeafPatterns ==
    Placeholders \cup Tokens \cup Literals \cup ContainsPatterns \cup PairPatterns
        \cup {UriPattern, CapabilitiesPattern}

LeafActuals ==
    Literals \cup UriParams \cup PairActuals \cup
    {JStr(x) : x \in {"version2", "b", "zab", "{{FOO}}", "{{UUID}}", "{{ANY}}", "None",
                      "{{documents.test_doc.missing}}", "true", "not json",
                      SomeUuid, SomeTimestamp, SomeUri}} \cup
    {ListOf(<<JStr("b"), JStr("a")>>), ListOf(<<JStr("ab")>>), JObj(<<Member("a", JStr("b"))>>),
     Capabilities}

\* the step of the LSP executor on expected e and actual a, with the
\* matchers called directly as well: resolved is TemplateEngine.substitute
\* of e, stepErrors what ResponseValidator.validate returns for a against
\* it; placeholder is what is_placeholder_match of the two MCP runners
\* returns for e and a
Stepped(e, a) ==
    [pattern |-> e, actual |-> a, matched |-> MatchAll(e, a), errors |-> ErrorsAll(e, a),
     placeholder |-> [mcp |-> IsPlaceholderMatchMcp(e, a),
                      mcpserver |-> IsPlaceholderMatchMcpServer(e, a)],
     resolved |-> Substitute(e),
     stepErrors |-> ValidateErrs(a, Substitute(e), "result")]

\* a leaf pattern and an actual value are drawn; no matcher has run
LeafInit ==
    /\ ConnInit
    /\ SuiteInit
    /\ \E e \in LeafPatterns, a \in LeafActuals : match = Drawn(e, a)

\* the step is executed on the pair
LeafApply ==
    /\ ~match.matched.applied
    /\ match' = Stepped(match.pattern, match.actual)
    /\ UNCHANGED <<peerVars, clientVars, readerVars, execVars, histVars, suite>>

LeafNext == LeafApply

LeafSpec == LeafInit /\ [][LeafNext]_vars

(* ---------------- frames on the byte stream ---------------- *)

\* In this specification the pipe is followed byte by byte: wire is the text
\* not yet read from process.stdout, outbox the messages handed to
\* _send_message, and message what _read_message returned last.  The peer
\* echoes every frame it receives; it may also write frames of its own.

\* the messages of the protocol that are drawn: requests, notifications and
\* responses as send_request, send_notification and a server build them
RequestMessage(id, method, params) ==
    JObj(<<Member("jsonrpc", JStr("2.0")), Member("id", JNum(id)),
           Member("method", JStr(method)), Member("params", params)>>)

NotificationMessage(method, params) ==
    JObj(<<Member("jsonrpc", JStr("2.0")), Member("method", JStr(method)),
           Member("params", params)>>)

ResponseMessage(id, value) ==
    JObj(<<Member("jsonrpc", JStr("2.0")), Member("id", JNum(id)), Member("result", value)>>)

FrameParams ==
    {JObj(<<>>), JObj(<<Member("k", JStr("a\"b\\c"))>>), ListOf(<<JNum(10), JFloat(2), JBool(TRUE)>>)}

FrameMessages ==
    {RequestMessage(7, "initialize", JObj(<<>>))}
    \cup {RequestMessage(1, "a", p) : p \in FrameParams}
    \cup {NotificationMessage("b", p) : p \in FrameParams}
    \cup {ResponseMessage(1, v) : v \in {JNull, JStr(""), JObj(<<Member("k", JNull)>>)}}

\* frames a peer can write that are not the framing of a message: no
\* Content-Length header (with and without a body after the blank line),
\* Content-Length 0, a body that is not JSON
MalformedFrames ==
    {"X-Length: 2\r\n\r\n", "X-Length: 2\r\n\r\n{}", "Content-Length: 0\r\n\r\n",
     "Content-Length: 2\r\n\r\n{x"}

\* bool(v) of Python
Truthy(v) ==
    CASE v.t = "null" -> FALSE
      [] v.t \in {"bool", "num", "float"} -> v.n # 0
      [] v.t = "str" -> v.s # ""
      [] OTHER -> v.kids # <<>>

frameRest ==
    <<procAlive, termSent, killSent, clientVars, sawEof, execVars,
      usedIds, enqueued, returned, delivered, suite, match>>

FrameInit ==
    /\ procAlive = TRUE
    /\ wire = ""
    /\ nframes = 0
    /\ termSent = FALSE
    /\ killSent = FALSE
    /\ request_id = 0
    /\ pending_responses = <<>>
    /\ notifications = <<>>
    /\ lock = "free"
    /\ rpc = "read"
    /\ message = None
    /\ sawEof = FALSE
    /\ epc = "next"
    /\ stepIdx = 0
    /\ success = TRUE
    /\ waitId = 0
    /\ waitMethod = "none"
    /\ elapsed = 0
    /\ collected = <<>>
    /\ result = None
    /\ usedIds = <<>>
    /\ outbox = <<>>
    /\ enqueued = {}
    /\ returned = <<>>
    /\ delivered = {}
    /\ SuiteInit
    /\ MatchIdle

\* _send_message(m), and the peer echoing the bytes on its stdout
FrameSend ==
    /\ nframes < MaxMsgs
    /\ \E m \in FrameMessages :
          /\ outbox' = Written(outbox, m)
          /\ wire' = wire \o SendMessage(m)
    /\ nframes' = nframes + 1
    /\ UNCHANGED <<rpc, message>>
    /\ UNCHANGED frameRest

\* the peer writes a frame that is not the framing of a message
FrameMalformed ==
    /\ nframes < MaxMsgs
    /\ \E bytes \in MalformedFrames : wire' = wire \o bytes
    /\ nframes' = nframes + 1
    /\ UNCHANGED <<rpc, message, outbox>>
    /\ UNCHANGED frameRest

\* _read_messages: message = self._read_message(); if message: handle it,
\* otherwise go round the loop
FrameRead ==
    /\ rpc = "read"
    /\ LET r == ReadMessage(wire) IN
          /\ ~r.blocked
          /\ wire' = r.rest
          /\ IF ~r.none /\ Truthy(r.message)
             THEN /\ message' = r.message
                  /\ rpc' = "handle"
             ELSE /\ message' = None
                  /\ rpc' = "read"
    /\ UNCHANGED <<nframes, outbox>>
    /\ UNCHANGED frameRest

\* _handle_message returns and the loop reads again
FrameHandle ==
    /\ rpc = "handle"
    /\ message' = None
    /\ rpc' = "read"
    /\ UNCHANGED <<wire, nframes, outbox>>
    /\ UNCHANGED frameRest

FrameNext ==
    \/ FrameSend
    \/ FrameMalformed
    \/ FrameRead
    \/ FrameHandle

FrameSpec == FrameInit /\ [][FrameNext]_vars

(* ---------------- the verdict of a request step on drawn responses ---------------- *)

\* the values of an 'error' key, of a response or of an expect block
ErrorValues ==
    {JObj(<<Member("code", JNum(1)), Member("message", JStr("a"))>>),
     JObj(<<Member("code", JNum(2)), Member("message", JStr("b"))>>),
     JStr("a")}

\* the responses of Responses with the value of their 'error' key
ErrorResponses ==
    {[none |-> r.none, error |-> r.error, hasResult |-> r.hasResult, result |-> r.result,
      errorValue |-> v] : r \in {q \in Responses : q.error}, v \in ErrorValues}
    \cup {[none |-> r.none, error |-> r.error, hasResult |-> r.hasResult, result |-> r.result,
           errorValue |-> JNull] : r \in {q \in Responses : ~q.error}}

\* the expect blocks of Expects with the value of their 'error' key
ErrorExpects ==
    {[error |-> e.error, hasResult |-> e.hasResult, result |-> e.result,
      errorValue |-> v] : e \in {q \in Expects : q.error}, v \in ErrorValues}
    \cup {[error |-> e.error, hasResult |-> e.hasResult, result |-> e.result,
           errorValue |-> JNull] : e \in {q \in Expects : ~q.error}}

\* wait_for_response has returned in _execute_request: response and expect
\* are drawn, nothing is judged yet
VerdictInit ==
    /\ ConnInit
    /\ \E r \in ErrorResponses, e \in ErrorExpects :
          suite = [stdinOpen |-> TRUE, response |-> r, expect |-> e, stepVerdict |-> "none"]
    /\ MatchIdle

\* _execute_request from the test of the response on
VerdictApply ==
    /\ suite.stepVerdict = "none"
    /\ suite' = [suite EXCEPT !.stepVerdict = ExecuteRequest(suite.response, suite.expect)]
    /\ UNCHANGED <<peerVars, clientVars, readerVars, execVars, histVars, match>>

VerdictNext == VerdictApply

VerdictSpec == VerdictInit /\ [][VerdictNext]_vars

(* ---------------- McpServerManager.send_request on the line stream ---------------- *)

\* In this specification the client is the one of mcp-server-runner.py: one
\* server process serves every step of every file, a request is one line on
\* its stdin and the answer is the next line of its stdout.  wire is the
\* lines not yet read (ok = FALSE: a line that is not JSON), waitId the id
\* of the request passed to send_request, result what it returns.

\* the ids the requests of the test files carry
LineIds == {1, 2}

\* send_request up to readline: the request of the step is written as one
\* line; an exception of the write is caught and None returned
LineSendRequest ==
    /\ epc = "next"
    /\ stepIdx < MaxSteps
    /\ \E id \in LineIds :
          /\ waitId' = id
          /\ IF PipeOpen
             THEN /\ outbox' = Written(<<>>, Request(id, "step"))
                  /\ epc' = "readline"
                  /\ UNCHANGED result
             ELSE /\ result' = None
                  /\ epc' = "returned"
                  /\ outbox' = <<>>
    /\ UNCHANGED <<stepIdx, success, waitMethod, elapsed, collected>>
    /\ UNCHANGED <<usedIds, enqueued, returned, delivered>>
    /\ UNCHANGED <<peerVars, clientVars, readerVars>>
    /\ UNCHANGED <<suite, match>>

\* send_request: response_str = self.process.stdout.readline(); an empty
\* string (end of stream) and a line json.loads rejects give None, any other
\* line is returned as it is
LineRead ==
    /\ epc = "readline"
    /\ \/ /\ wire # <<>>
          /\ result' = IF Head(wire).ok THEN Head(wire).msg ELSE None
          /\ wire' = Tail(wire)
       \/ /\ AtEof
          /\ result' = None
          /\ UNCHANGED wire
    /\ epc' = "returned"
    /\ UNCHANGED <<procAlive, nframes, termSent, killSent>>
    /\ UNCHANGED <<stepIdx, success, waitId, waitMethod, elapsed, collected>>
    /\ UNCHANGED <<clientVars, readerVars, histVars>>
    /\ UNCHANGED <<suite, match>>

\* run_test_file after send_request: None fails the file, otherwise
\* deep_compare decides; the next step, of this file or of the next one,
\* uses the same server
LineStepEnd ==
    /\ epc = "returned"
    /\ stepIdx' = NextIndex(stepIdx)
    /\ success' \in (IF result = None THEN {FALSE} ELSE BOOLEAN)
    /\ waitId' = 0
    /\ result' = None
    /\ epc' = "next"
    /\ UNCHANGED <<waitMethod, elapsed, collected>>
    /\ UNCHANGED <<peerVars, clientVars, readerVars, histVars>>
    /\ UNCHANGED <<suite, match>>

LineNext ==
    \/ PeerSend
    \/ PeerExit
    \/ LineSendRequest
    \/ LineRead
    \/ LineStepEnd

LineSpec == Init /\ [][LineNext]_vars

(* ---------------- properties ---------------- *)

\* positions of the executor inside wait_for_notification
WaitNotificationPcs == {"wn_loop", "wn_get", "wn_put"}

\* C1: no notification is silently dropped: whenever no wait_for_notification
\* call is in progress (in particular when one has just returned, with a
\* match or with None), every notification the reader put on the queue is
\* still in the queue or was returned to a waiter.
C1_NoNotificationDropped ==
    (epc \notin WaitNotificationPcs) =>
        \A n \in enqueued : n \in Range(notifications) \/ n \in delivered

\* C2: a response is delivered to at most one waiter: no response is returned
\* twice by wait_for_response, and the step that returns a response holds
\* the lock and removes the entry from pending_responses.
C2_ResponseAtMostOnce ==
    /\ [](\A i, j \in DOMAIN returned : returned[i] = returned[j] => i = j)
    /\ [][returned' # returned =>
            /\ lock = "exec"
            /\ waitId \in DOMAIN pending_responses
            /\ returned' = Append(returned, pending_responses[waitId])
            /\ result' = pending_responses[waitId]
            /\ waitId \notin DOMAIN pending_responses']_vars

\* a wait_for_response call has just returned a response while another one
\* is stored
C2_Witness ==
    /\ epc = "req_ret"
    /\ result # None
    /\ returned # <<>>
    /\ DOMAIN pending_responses # {}

\* C3: request ids are never reused: the ids of the send_request calls on the
\* client, the shutdown request of stop included, are strictly increasing in
\* call order.
C3_IdsStrictlyIncreasing ==
    \A i, j \in DOMAIN usedIds : i < j => usedIds[i] < usedIds[j]

\* stop has sent its shutdown request after a request step of the sequence
C3_Witness ==
    /\ epc = "stop_exit"
    /\ Len(usedIds) >= 2

\* C4: wait_for_response and wait_for_notification never block
\* indefinitely: a wait in progress eventually returns; what it returns is
\* None or a message with the awaited id / the awaited method, and None is
\* returned only once the deadline has passed.
C4_WaitsReturn ==
    /\ (epc \in WaitPcs) ~> (epc \in {"req_ret", "exp_ret"})
    /\ [](epc = "req_ret" =>
            IF result = None THEN ~TimeLeft(elapsed) ELSE result.id = waitId)
    /\ [](epc = "exp_ret" =>
            IF result = None THEN ~TimeLeft(elapsed) ELSE result.method = waitMethod)

\* a wait has returned None although the peer never wrote a frame
C4_Witness ==
    /\ epc \in {"req_ret", "exp_ret"}
    /\ result = None
    /\ nframes = 0

\* C5: once the peer's stdout is at end of stream, the reader thread
\* eventually finishes.
C5_ReaderTerminates == AtEof ~> (rpc = "done")

\* the ids of the requests sent so far on this connection
SentIds == Range(usedIds)

\* C6: _handle_message stores a JSON-RPC message (one that carries an id or
\* a method) as a response exactly if its id is one of the ids sent so far;
\* every other such message, one with an id that was never sent and a
\* request of the peer included, is appended to the notification queue.
C6_Classification ==
    [][(rpc = "handle" /\ rpc' # "handle" /\ (HasId(message) \/ HasMethod(message))) =>
          IF message.id \in SentIds
          THEN rpc' = "h_lock" /\ notifications' = notifications
          ELSE notifications' = Append(notifications, message)]_vars

\* C7: an entry of pending_responses is never overwritten: while an id stays
\* in the map, the message stored under it stays the same.
C7_NoOverwrite ==
    [][\A i \in DOMAIN pending_responses :
          i \in DOMAIN pending_responses' =>
              pending_responses'[i] = pending_responses[i]]_vars

\* C8: when wait_for_notification returns a notification, it has the awaited
\* method and no notification with that method that arrived before it is
\* still held by the client (in the queue or among the skipped ones).
C8_FirstMatchReturned ==
    (epc = "exp_ret" /\ result # None) =>
        /\ result.method = waitMethod
        /\ \A n \in Range(notifications) \cup Range(collected) :
              n.method = waitMethod => n.seq > result.seq

\* wait_for_notification has returned a match after skipping a notification
\* of another method
C8_Witness ==
    /\ epc = "exp_ret"
    /\ result # None
    /\ collected # <<>>

\* C9: whenever no wait_for_notification call is in progress, the queue holds
\* its notifications in arrival order.
C9_ArrivalOrder ==
    (epc \notin WaitNotificationPcs) =>
        \A i, j \in DOMAIN notifications :
            i < j => notifications[i].seq < notifications[j].seq

\* C10: pending_responses is only accessed under the client lock, and the
\* reader thread and the executor are never inside their locked sections at
\* the same time.
C10_MutualExclusion ==
    /\ rpc = "h_store" => lock = "reader"
    /\ epc = "wr_check" => lock = "exec"
    /\ ~(rpc = "h_store" /\ epc = "wr_check")

\* the reader waits for the lock while the executor is inside
\* wait_for_response's locked section
C10_Witness ==
    /\ rpc = "h_lock"
    /\ epc = "wr_check"
    /\ lock = "exec"

\* the test files a run can have
Files == 1..MaxFiles

\* C11: execution is fail-fast in each runner: once a step of a test file's
\* sequence has failed (timeout, unexpected error, transport failure or
\* validation mismatch), no later step of that file is executed, and when
\* the run has moved on or ended that file's verdict is Failed.
C11_FailFast ==
    /\ \A p \in suite.ran : suite.failedAt[p[1]] # 0 => p[2] <= suite.failedAt[p[1]]
    /\ \A f \in Files :
          (suite.failedAt[f] # 0 /\ (suite.fileIdx > f \/ suite.mpc \in EndPcs)) => suite.verdicts[f] = "Failed"

\* C12: verdict of a request step: Timeout if no response arrived;
\* UnexpectedError if the response carries an error and expect declares
\* none; ValidationError if expect.result is present and the matcher reports
\* a mismatch against the response's result; in every other case the step
\* passes.  Every verdict but Passed fails the step.
C12_RequestVerdict ==
    (suite.stepVerdict # "none") =>
        LET unexpected == suite.response.error /\ ~suite.expect.error
            mismatch == suite.expect.hasResult /\ ~MatchAll(suite.expect.result, ResultOf(suite.response)).lsp
        IN  /\ suite.stepVerdict = "Timeout" <=> suite.response.none
            /\ suite.stepVerdict = "UnexpectedError" <=> (~suite.response.none /\ unexpected)
            /\ suite.stepVerdict = "ValidationError" <=>
                  (~suite.response.none /\ ~unexpected /\ mismatch)
            /\ suite.stepVerdict = "Passed" <=>
                  (~suite.response.none /\ ~unexpected /\ ~mismatch)
            /\ (suite.stepVerdict # "Passed" /\ epc # "idle") => ~success

\* a request step got an error response, its expect declares an error and a
\* result, and the step failed on the result
C12_Witness ==
    /\ epc = "stop"
    /\ suite.stepVerdict = "ValidationError"
    /\ suite.response.error
    /\ suite.expect.error
    /\ ~success

\* C13: the peer is released on every path out of TestExecutor.execute
\* after the daemon was started: when execute is left, by its return or by
\* the exception of a step, LSPDaemonManager.stop has been invoked.
C13_StopAlwaysInvoked ==
    (suite.runner = "lsp" /\ epc \in {"done", "raised"}) => suite.stopInvoked

\* C14: an error local to one test file never aborts the run: when the run
\* of the LSP runner has ended, every discovered test file was executed and
\* counted as passed or failed.
C14_RunContinues ==
    (suite.runner = "lsp" /\ suite.mpc \in EndPcs /\ suite.ntests >= 0) =>
        suite.passed + suite.failed = suite.ntests

\* C15: when LSPDaemonManager.stop or McpServerManager.stop has returned,
\* the peer is not running any more: a peer that outlived the grace period
\* was terminated and, if still running, killed.
C15_TeardownForcesExit ==
    (\/ suite.runner = "lsp" /\ epc = "done"
     \/ suite.runner = "mcpserver" /\ suite.mpc = "exited" /\ suite.stopInvoked)
    => ~procAlive

\* C16: no two test files share a peer process: in every runner, the steps
\* of different test files exchange messages with different processes.
C16_NoSharedPeer ==
    \A p, q \in suite.talked : p[1] # q[1] => p[2] # q[2]

\* every discovered test file was executed and got its verdict from its
\* steps (none failed to load, none was left without a peer)
AllFilesRun ==
    \A f \in 1..suite.ntests :
        /\ suite.verdicts[f] # "none"
        /\ suite.verdicts[f] = "Failed" => suite.failedAt[f] # 0

\* C17: the exit status of a run is 0 if and only if no executed step
\* failed: for every set of discovered test files, the empty set included,
\* of which each was executed, and every outcome of their steps.
C17_ExitStatus ==
    (suite.mpc \in EndPcs /\ suite.ntests >= 0 /\ AllFilesRun) =>
        (suite.exitCode = 0 <=> \A f \in Files : suite.failedAt[f] = 0)

\* positions of TestExecutor.execute at which the verdict is reached
VerdictPcs == {"stop", "stop_exit", "stop_poll", "stop_poll2", "done", "ret"}

\* C18: the sequence executor of the LSP runner goes Idle -> Connected ->
\* Running(stepIndex) -> Passed | Failed: the loop is entered only from the
\* start of a new peer, with step index 0; a daemon that does not start
\* gives Failed with no step run; a step is executed only inside the loop,
\* its index is the previous one plus one, and it was not executed before;
\* once the verdict is reached no step is executed and the verdict stays.
C18_ExecutorStateMachine ==
    /\ [][suite.runner = "lsp" =>
            /\ (epc' = "run" /\ epc # "run") =>
                  (epc = "begin" /\ suite'.spawned = suite.spawned + 1 /\ procAlive' /\ stepIdx' = 0)
            /\ (epc = "begin" /\ epc' = "ret") => (~success' /\ suite'.ran = suite.ran)
            /\ suite'.ran # suite.ran =>
                  /\ epc = "run"
                  /\ success
                  /\ stepIdx' = stepIdx + 1
                  /\ <<suite.fileIdx, stepIdx'>> \notin suite.ran
                  /\ suite'.ran = suite.ran \cup {<<suite.fileIdx, stepIdx'>>}
            /\ epc \in VerdictPcs =>
                  /\ suite'.ran = suite.ran
                  /\ success' = success
                  /\ epc' \in VerdictPcs \cup {"idle"}]_vars
    /\ []((suite.runner = "lsp" /\ epc = "ret") => \A p \in suite.ran : p[1] # suite.fileIdx)

\* execute has run every step of the second test file's sequence and
\* stopped the daemon with success = True
C18_Witness ==
    /\ suite.runner = "lsp"
    /\ epc = "done"
    /\ suite.fileIdx = 2
    /\ success
    /\ \A i \in 1..MaxSteps : <<2, i>> \in suite.ran

\* the names of the three matchers
Matchers == {"lsp", "mcp", "mcpserver"}

\* C19: object subset law: when an object that matches an object pattern
\* (one without a 'contains' key) is extended with one more key that the
\* pattern does not name, with any value, it still matches; this holds for
\* ResponseValidator.validate and for both deep_compare functions.
C19_ObjectSubsetLaw ==
    [][(/\ match.matched.applied
        /\ match.pattern.t = "obj"
        /\ match.actual.t = "obj"
        /\ match'.actual.t = "obj"
        /\ Len(match'.actual.kids) = Len(match.actual.kids) + 1
        /\ SubSeq(match'.actual.kids, 1, Len(match.actual.kids)) = match.actual.kids
        /\ match'.actual.kids[Len(match'.actual.kids)].k \notin KeysOf(match.pattern))
       => \A m \in Matchers : match.matched[m] => match'.matched[m]]_vars

\* an object that matched the pattern {b: 1} was extended with the key a
\* and matches it for all three matchers
C19_Witness ==
    /\ match.pattern = JObj(<<[k |-> "b", val |-> JNum(1)]>>)
    /\ match.actual.t = "obj"
    /\ Len(match.actual.kids) = 2
    /\ match.actual.kids[1] = [k |-> "b", val |-> JNum(1)]
    /\ match.actual.kids[2].k = "a"
    /\ \A m \in Matchers : match.matched[m]

\* C20: array exactness law: when an item is appended to or removed from an
\* array that matches an array pattern, the result does not match the
\* pattern; an array pattern is matched only by an array of exactly its
\* length, item by item.
C20_ArrayExactnessLaw ==
    /\ [][(/\ match.matched.applied
           /\ match.pattern.t = "arr"
           /\ match.actual.t = "arr"
           /\ match'.actual.t = "arr"
           /\ Len(match'.actual.kids) # Len(match.actual.kids))
          => \A m \in Matchers : match.matched[m] => ~match'.matched[m]]_vars
    /\ [](\A m \in Matchers :
             (match.matched.applied /\ match.pattern.t = "arr" /\ match.matched[m]) =>
                 /\ match.actual.t = "arr"
                 /\ Len(match.actual.kids) = Len(match.pattern.kids)
                 /\ \A i \in DOMAIN match.pattern.kids :
                       MatchAll(match.pattern.kids[i].val, match.actual.kids[i].val)[m])

\* an array that matched a pattern of MaxLen items got one more item and no
\* matcher accepts it any more
C20_Witness ==
    /\ match.matched.applied
    /\ match.pattern.t = "arr"
    /\ Len(match.pattern.kids) = MaxLen
    /\ match.actual.t = "arr"
    /\ Len(match.actual.kids) = MaxLen + 1
    /\ SubSeq(match.actual.kids, 1, MaxLen) = match.pattern.kids
    /\ \A i \in DOMAIN match.pattern.kids : match.pattern.kids[i].val = JNum(1)
    /\ \A m \in Matchers : ~match.matched[m]

\* the text of every item of a 'contains' list of strings
C21_Items(expected) ==
    {Item(expected, "contains").kids[i].val.s : i \in DOMAIN Item(expected, "contains").kids}

\* containment as the specification states it, by the type of the actual
\* value
C21_Contained(act, items) ==
    \/ act.t = "str" /\ \A x \in items : IsSubstring(x, act.s)
    \/ act.t = "arr" /\ \A x \in items : \E i \in DOMAIN act.kids : act.kids[i].val = JStr(x)
    \/ act.t = "obj" /\ \A x \in items : IsSubstring(x, Dumps(act))

\* C21: containment: an expectation that is an object with a 'contains' key
\* (a list of strings) passes if and only if the actual value is a string
\* in which every item occurs, or an array of which every item is an
\* element, or an object in whose JSON serialization every item occurs; any
\* other actual value fails; the other keys of the expectation and the type
\* of the actual value are not looked at otherwise.  The expectation
\* {capabilities: {contains: [hoverProvider]}} passes against
\* {capabilities: {hoverProvider: true, completionProvider: false}}.
C21_Containment ==
    /\ (/\ match.matched.applied
        /\ match.pattern.t = "obj"
        /\ HasKey(match.pattern, "contains")
        /\ Item(match.pattern, "contains").t = "arr")
       => (match.matched.lsp <=> C21_Contained(match.actual, C21_Items(match.pattern)))
    /\ (/\ match.matched.applied
        /\ match.pattern = CapabilitiesPattern
        /\ match.actual = Capabilities)
       => match.matched.lsp

\* an object was validated against a 'contains' expectation that has
\* another key as well, and passed
C21_Witness ==
    /\ match.matched.applied
    /\ match.pattern.t = "obj"
    /\ HasKey(match.pattern, "contains")
    /\ HasKey(match.pattern, "a")
    /\ match.actual.t = "obj"
    /\ match.matched.lsp

\* C22: type placeholders: {{NUMBER}} passes if and only if the actual
\* value is an integer or a floating-point number, {{STRING}} if and only if
\* it is a string, {{BOOLEAN}} if and only if it is a boolean; a boolean
\* does not satisfy {{NUMBER}}; in both MCP runners.
C22_TypePlaceholders ==
    match.matched.applied =>
        \A m \in {"mcp", "mcpserver"} :
            /\ match.pattern = JStr("{{NUMBER}}")
                  => (match.placeholder[m] <=> match.actual.t \in {"num", "float"})
            /\ match.pattern = JStr("{{STRING}}")
                  => (match.placeholder[m] <=> match.actual.t = "str")
            /\ match.pattern = JStr("{{BOOLEAN}}")
                  => (match.placeholder[m] <=> match.actual.t = "bool")

\* C23: {{REGEX:p}} passes if and only if the actual value is a string in
\* which p is found somewhere, in both MCP runners: ^v[0-9]+$ is found in
\* "v2" and not in "version2", and b is found in "ab" and in "zab".
C23_RegexSearch ==
    match.matched.applied =>
        \A m \in {"mcp", "mcpserver"} :
            /\ match.pattern = JStr("{{REGEX:^v[0-9]+$}}")
                  => (match.placeholder[m] <=> match.actual = JStr("v2"))
            /\ match.pattern = JStr("{{REGEX:b}}")
                  => (match.placeholder[m] <=>
                        match.actual.t = "str" /\ IsSubstring("b", match.actual.s))

\* C24: an expectation of placeholder form whose placeholder check fails
\* (an unknown kind, or a known kind the actual value does not satisfy) is
\* a mismatch for deep_compare of both MCP runners, also when the actual
\* value is the very text of the expectation.
C24_NoLiteralFallback ==
    (/\ match.matched.applied
     /\ match.pattern.t = "str"
     /\ IsPlaceholderForm(match.pattern.s))
    => \A m \in {"mcp", "mcpserver"} : match.matched[m] => match.placeholder[m]

\* C25: an expectation {{ANY}} is left as it is by template resolution and
\* matches every actual value: in the step of the LSP executor (resolution,
\* then validation) and in deep_compare of both MCP runners.
C25_AnyAlwaysPasses ==
    (match.matched.applied /\ match.pattern = JStr("{{ANY}}")) =>
        /\ match.resolved = JStr("{{ANY}}")
        /\ match.stepErrors = <<>>
        /\ match.matched.mcp
        /\ match.matched.mcpserver

\* the path of the i-th position of a pattern, under the root the matcher
\* starts from
C26_PathOf(root, pattern, i) ==
    IF pattern.t = "obj" THEN KeyPath(root, pattern.kids[i].k) ELSE IndexPath(root, i)

\* the actual value at the i-th position of a pattern
C26_ActualAt(pattern, act, i) ==
    IF pattern.t = "obj" THEN Item(act, pattern.kids[i].k) ELSE act.kids[i].val

\* the positions of the pattern at which the matcher m does not accept the
\* actual value
C26_Differing(m, pattern, act) ==
    {i \in DOMAIN pattern.kids :
        ~MatchAll(pattern.kids[i].val, C26_ActualAt(pattern, act, i))[m]}

\* the roots the three matchers tag their paths from
C26_Root == [lsp |-> "result", mcp |-> "$", mcpserver |-> "root"]

\* C26: one call returns the full list of mismatches: when an object
\* pattern is applied to an object that has all its keys, or an array
\* pattern to an array of its length, each matcher reports exactly one
\* mismatch per position at which it does not accept the actual value,
\* tagged with the path of that position.
C26_FullList ==
    (/\ match.matched.applied
     /\ match.pattern.t \in {"obj", "arr"}
     /\ match.actual.t = match.pattern.t
     /\ ~HasKey(match.pattern, "contains")
     /\ match.pattern.t = "obj" => KeysOf(match.pattern) \subseteq KeysOf(match.actual)
     /\ match.pattern.t = "arr" => Len(match.pattern.kids) = Len(match.actual.kids)
     /\ \A i \in DOMAIN match.pattern.kids : match.pattern.kids[i].val.t \notin {"obj", "arr"})
    => \A m \in {"lsp", "mcp", "mcpserver"} :
          /\ Len(match.errors[m]) = Cardinality(C26_Differing(m, match.pattern, match.actual))
          /\ {match.errors[m][j].path : j \in DOMAIN match.errors[m]}
                = {C26_PathOf(C26_Root[m], match.pattern, i) :
                      i \in C26_Differing(m, match.pattern, match.actual)}

\* literal scalars: null, booleans, numbers and strings that have not the
\* form of a placeholder or of a template token
C27_IsLiteral(v) ==
    \/ v.t \in {"null", "bool", "num", "float"}
    \/ v.t = "str" /\ ~IsPlaceholderForm(v.s) /\ ~IsSubstring("{{", v.s)

\* equality by value as the specification states it: an integer and a
\* floating-point number of the same value are equal, a boolean is equal to
\* a boolean only
C27_EqualByValue(a, b) ==
    IF a.t \in {"num", "float"} /\ b.t \in {"num", "float"} THEN a.n = b.n
    ELSE a = b

\* C27: a literal scalar pattern passes if and only if the actual value
\* equals it by value (integer and floating-point of the same value match, a
\* boolean never matches a number), and the three matchers give the same
\* verdict on every pair.
C27_LiteralByValue ==
    (match.matched.applied /\ C27_IsLiteral(match.pattern)) =>
        \A m \in {"lsp", "mcp", "mcpserver"} :
            match.matched[m] <=> C27_EqualByValue(match.pattern, match.actual)

\* C28: an object pattern without a 'contains' key is matched only by an
\* object that has every key of the pattern, whatever the sub-pattern of
\* the key is; for the three matchers.
C28_KeysRequired ==
    (/\ match.matched.applied
     /\ match.pattern.t = "obj"
     /\ ~HasKey(match.pattern, "contains"))
    => \A m \in {"lsp", "mcp", "mcpserver"} :
          match.matched[m] =>
              /\ match.actual.t = "obj"
              /\ KeysOf(match.pattern) \subseteq KeysOf(match.actual)

\* tokens whose path names an unknown document, a missing field of a known
\* document or variable, or goes through a value that is not a mapping
C29_Unresolvable ==
    {JStr(x) : x \in {"{{documents.nodoc.uri}}",
                      "{{documents.test_doc.missing}}", "{{variables.missing}}",
                      "{{documents.test_doc.uri.x}}", "{{variables.v.x}}",
                      "{{documents.test_doc.n.x.y}}"}}

\* C29: TemplateEngine.substitute returns the text of an unresolvable
\* token unchanged: unknown document, missing field, non-mapping
\* intermediate value.
C29_UnresolvedKept ==
    (match.matched.applied /\ match.pattern \in C29_Unresolvable) =>
        match.resolved = match.pattern

\* C30: validating the params of a notification against
\* {uri: {{documents.test_doc.uri}}}: params with the uri of test_doc
\* pass; params with another uri fail with exactly one mismatch, whose path
\* is params.uri.
C30_NotificationPath ==
    (/\ match.matched.applied
     /\ match.pattern = UriPattern
     /\ match.actual \in UriParams)
    => IF match.actual = JObj(<<Member("uri", JStr(SomeUri))>>)
       THEN match.stepErrors = <<>>
       ELSE /\ Len(match.stepErrors) = 1
            /\ match.stepErrors[1].path = "params.uri"

\* the bytes are one "Content-Length: <n>" header line, the blank line, and
\* a body of exactly n bytes that is json.dumps(m)
IsFrameOf(bytes, m) ==
    LET body == Dumps(m)
    IN  bytes = "Content-Length: " \o IntStr(Len(body)) \o "\r\n\r\n" \o body

\* C31: a malformed frame (no Content-Length, Content-Length 0, a body that
\* is not valid JSON) makes the receive side fail: once _read_message has
\* consumed it, the reader does not go on to read the next frame
C31_MalformedFrameFails ==
    [][(rpc = "read" /\ wire \in MalformedFrames /\ Len(wire') < Len(wire))
            => rpc' # "read"]_vars

\* C32: the bytes _send_message(m) writes on an empty stream are exactly one
\* Content-Length header, the blank line and a body of that many bytes, and
\* _read_message on those bytes returns a message equal to m and leaves
\* nothing in the stream
C32_FramingRoundTrip ==
    [][\A m \in FrameMessages :
          /\ (wire = "" /\ outbox' = Append(outbox, m)) => IsFrameOf(wire', m)
          /\ (IsFrameOf(wire, m) /\ rpc = "read" /\ Len(wire') < Len(wire))
                => (message' = m /\ wire' = "" /\ rpc' = "handle")]_vars

C32_Witness ==
    /\ outbox = <<RequestMessage(7, "initialize", JObj(<<>>))>>
    /\ message = RequestMessage(7, "initialize", JObj(<<>>))
    /\ rpc = "handle"
    /\ wire = ""

\* C33: a notification step writes exactly one message, which has no id,
\* allocates no request id, leaves pending_responses and the notification
\* queue as they are, and passes whenever the send does not raise
C33_NotificationStep ==
    [][(epc = "send_ntf" /\ epc' # epc)
          => /\ request_id' = request_id
             /\ usedIds' = usedIds
             /\ pending_responses' = pending_responses
             /\ notifications' = notifications
             /\ success' = success
             /\ \/ /\ epc' = "next"
                   /\ Len(outbox') = 1
                   /\ ~HasId(outbox'[1])
                   /\ HasMethod(outbox'[1])
                \/ /\ epc' = "raised"
                   /\ ~PipeOpen
                   /\ outbox' = outbox]_vars

C33_Witness ==
    /\ epc = "next"
    /\ stepIdx > 0
    /\ outbox = <<Notification("step")>>
    /\ request_id = 0
    /\ success

\* the peer has been sent shutdown and then exit
BothSent ==
    \E i \in DOMAIN outbox :
        /\ i > 1
        /\ outbox[i].method = "exit"
        /\ outbox[i - 1].method = "shutdown"

\* C34: in LSPDaemonManager.stop shutdown is sent before exit; terminate is
\* sent only to a peer still running after both were sent; kill is sent
\* only after terminate and only to a peer still running; a peer that has
\* exited gets neither
C34_TeardownOrder ==
    /\ [](\A i \in DOMAIN outbox :
             outbox[i].method = "exit" => i > 1 /\ outbox[i - 1].method = "shutdown")
    /\ [][(termSent' /\ ~termSent) => (procAlive /\ BothSent /\ ~killSent)]_vars
    /\ [][(killSent' /\ ~killSent) => (procAlive /\ termSent)]_vars

C34_Witness ==
    /\ epc = "done"
    /\ BothSent
    /\ termSent
    /\ killSent

\* C35: wait_for_response(id) returns only a message whose id is the
\* requested one, whatever else the reader has stored meanwhile
C35_ResponseIdMatches ==
    (epc = "req_ret" /\ result # None) => result.id = waitId

C35_Witness ==
    /\ epc = "req_ret"
    /\ result # None
    /\ result.id = waitId
    /\ \E k \in DOMAIN pending_responses : k # waitId

\* C37: a step of a type the runner does not know is skipped without
\* effect: nothing is sent, nothing awaited, no verdict or count changes,
\* and the loop goes on (lsp: other than request, notification,
\* expect_notification; mcp: other than request)
C37_UnknownStepSkipped ==
    [][(suite.mpc = "exec" /\ stepIdx' = stepIdx + 1 /\ suite'.stepType = "other")
          => /\ <<request_id, usedIds>>' = <<request_id, usedIds>>
             /\ outbox' = <<>>
             /\ <<epc, success>>' = <<epc, success>>
             /\ <<pending_responses, notifications, waitId, waitMethod>>'
                   = <<pending_responses, notifications, waitId, waitMethod>>
             /\ suite'.mpc = "exec"
             /\ suite'.talked = suite.talked
             /\ suite'.verdicts = suite.verdicts
             /\ suite'.failedAt = suite.failedAt
             /\ suite'.passed = suite.passed
             /\ suite'.failed = suite.failed
             /\ suite'.exitCode = suite.exitCode]_vars

C37_Witness ==
    /\ suite.runner \in {"lsp", "mcp"}
    /\ suite.mpc = "exec"
    /\ suite.stepType = "other"
    /\ <<suite.fileIdx, stepIdx>> \in suite.ran
    /\ suite.verdicts[suite.fileIdx] = "none"
    /\ suite.talked = {}
    /\ outbox = <<>>

\* the test files counted with the verdict v
CountedAs(v) == Cardinality({f \in 1..suite.ntests : suite.verdicts[f] = v})

\* C38: at the end of a run that went through all its test files every file
\* is counted exactly once, as passed or as failed: passed + failed is the
\* number of test files, and a file is counted as passed only if none of
\* its steps failed
C38_SummaryAccounting ==
    (suite.runner \in Runners /\ suite.mpc = "exited" /\ suite.ntests >= 0
        /\ suite.fileIdx = suite.ntests)
    => /\ suite.passed = CountedAs("Passed")
       /\ suite.failed = CountedAs("Failed")
       /\ suite.passed + suite.failed = suite.ntests
       /\ \A f \in 1..suite.ntests : suite.verdicts[f] = "Passed" => suite.failedAt[f] = 0

C38_Witness ==
    /\ suite.mpc = "exited"
    /\ suite.ntests = 2
    /\ suite.fileIdx = 2
    /\ suite.passed = 1
    /\ suite.failed = 1

\* C39: a response with an error passes a request step whose expect block
\* declares an 'error' key and no 'result' key, whatever the declared and
\* the received error are
C39_ErrorNotCompared ==
    (/\ suite.stepVerdict # "none"
     /\ ~suite.response.none
     /\ suite.response.error
     /\ suite.expect.error
     /\ ~suite.expect.hasResult)
    => suite.stepVerdict = "Passed"

C39_Witness ==
    /\ suite.stepVerdict = "Passed"
    /\ suite.response.error
    /\ suite.expect.error
    /\ ~suite.expect.hasResult
    /\ suite.response.errorValue # suite.expect.errorValue

\* C40: the mcp runner signals the daemon only if this run started it: a
\* daemon that ran before the run is sent neither terminate nor kill, and a
\* run that started a process has called DaemonManager.stop when it ends
C40_StopOnlyOwnDaemon ==
    suite.runner = "mcp" =>
        /\ suite.preexisting => (~termSent /\ ~killSent)
        /\ (suite.mpc \in EndPcs /\ suite.spawned > 0) => suite.stopInvoked

\* C36: the message McpServerManager.send_request returns for a request
\* carries the id of that request, whatever lines the peer writes
C36_LineResponseId ==
    (epc = "returned" /\ result # None) => result.id = waitId

====
